---- MODULE Spec2Model ----
(***************************************************************************)
(* Model of the API-client layer of the lenzo.ai dashboard frontend:       *)
(*   - APIClient.query / APIClient.pollJob        (frontend/lib/api.ts)    *)
(*   - TypeSafeAPIClient.request / query / pollForResult                   *)
(*                                           (frontend/lib/api/client.ts)  *)
(*   - FetchWrapper.fetch               (frontend/lib/api/fetch-wrapper.ts)*)
(* JavaScript is single threaded: the code between two awaits runs         *)
(* atomically, so every action below is the continuation that runs when    *)
(* one awaited promise (a fetch, a body read, a timer) settles.            *)
(***************************************************************************)
EXTENDS Integers, Sequences, FiniteSets, TLC

(***************************************************************************)
(* Bounds of the model.                                                    *)
(***************************************************************************)
\* largest maxAttempts handed to pollJob
MaxAttemptsBound == 2
\* largest maxPollingTime handed to pollForResult, in units of UnitMs
MaxBudgetUnits == 2
\* cap on the job-endpoint requests of one query (pollJob can spin on an
\* unhandled status without counting an attempt)
MaxRequests == 4

\* the value standing for a JavaScript undefined option
Undef == -1

(***************************************************************************)
(* Program constants.                                                      *)
(***************************************************************************)
\* api.ts: jobData.poll_interval_ms || 500
DefaultPollIntervalMs == 500
\* client.ts: pollingInterval = 1000
DefaultPollingInterval == 1000

\* the time unit of the model's clocks, in milliseconds
UnitMs == DefaultPollIntervalMs

(***************************************************************************)
(* The answers of the backend.  status is the HTTP status (0: the fetch    *)
(* promise rejects, a transport failure); json says whether the body       *)
(* parses as JSON; job is the body's status field ("none": absent);        *)
(* result says whether the body carries a QueryResponse (for api.ts in     *)
(* data.result, for client.ts at top level) and whether it passes          *)
(* validation; msg is the body's error / message field.                    *)
(***************************************************************************)
Answer(s, j, jb, res, m) ==
  [status |-> s, json |-> j, job |-> jb, result |-> res, msg |-> m]

\* the answers of a backend that follows the job protocol
Processing == Answer(202, TRUE, "processing", "none", "none")
Completed  == Answer(200, TRUE, "completed", "valid", "none")
FailedJob  == Answer(500, TRUE, "failed", "none", "boom")
NotFound   == Answer(404, TRUE, "none", "none", "none")

JobAnswers ==
  { Processing, Completed, FailedJob, NotFound,
    Answer(200, TRUE, "completed", "invalid", "none"),
    Answer(200, TRUE, "failed", "none", "boom"),
    Answer(200, TRUE, "failed", "none", "none"),
    Answer(500, TRUE, "failed", "none", "none"),
    Answer(404, FALSE, "none", "none", "none"),
    Answer(503, TRUE, "none", "none", "none"),
    Answer(200, TRUE, "none", "none", "none"),
    Answer(0, FALSE, "none", "none", "none") }

PostAnswers ==
  { Completed, Processing,
    Answer(200, TRUE, "completed", "invalid", "none"),
    Answer(201, TRUE, "completed", "valid", "none"),
    Answer(200, TRUE, "queued", "none", "none"),
    Answer(202, TRUE, "completed", "valid", "none"),
    Answer(202, FALSE, "none", "none", "none"),
    Answer(400, TRUE, "none", "none", "boom"),
    Answer(404, FALSE, "none", "none", "none"),
    Answer(500, TRUE, "none", "none", "boom"),
    Answer(0, FALSE, "none", "none", "none") }

NoAnswer == Answer(-1, FALSE, "none", "none", "none")

\* Response.ok
Ok(r) == r.status >= 200 /\ r.status <= 299

(***************************************************************************)
(* State of one query invocation.                                          *)
(***************************************************************************)
VARIABLES
  client,         \* "api": APIClient, "typed": TypeSafeAPIClient
  pc,             \* "idle", "post_wait", "poll_wait", "result_wait",
                  \* "sleeping", "done"
  intervalOpt,    \* the server's poll_interval_ms / options.pollingInterval
  intervalMs,     \* pollJob's intervalMs / pollForResult's pollingInterval
  maxAttempts,    \* pollJob's maxAttempts
  attempts,       \* pollJob's attempts
  maxPollingTime, \* pollForResult's maxPollingTime
  now,            \* Date.now() - startTime
  inflight,       \* number of job-endpoint requests awaiting their response
  trace,          \* the job-endpoint requests and the sleeps, in order
  answers,        \* the job-endpoint answers received, in order
  postAnswer,     \* the answer to the initial POST
  outcome,        \* how the promise returned by query settled
  onProgress,     \* whether the caller registered a progress callback
  progress,       \* the progress field of each job-endpoint answer, in order
  progressCalls,  \* the arguments of the calls of the progress callback
  cancelled       \* whether the component that issued the query has unmounted

qvars == <<client, pc, intervalOpt, intervalMs, maxAttempts, attempts, maxPollingTime, now,
           inflight, trace, answers, postAnswer, outcome, onProgress, progress,
           progressCalls, cancelled>>

Pending == [kind |-> "pending", err |-> "none", msg |-> "none", wrapped |-> FALSE]
Resolved == [kind |-> "result", err |-> "none", msg |-> "none", wrapped |-> FALSE]
Rejected(e, m) == [kind |-> "error", err |-> e, msg |-> m, wrapped |-> FALSE]

PollEvent == <<"poll", 0>>
FetchEvent == <<"fetch", 0>>
SleepEvent(ms) == <<"sleep", ms>>

NumRequests(t) == Cardinality({i \in 1..Len(t) : t[i][1] \in {"poll", "fetch"}})
NumPolls(t) == Cardinality({i \in 1..Len(t) : t[i][1] = "poll"})
NumSleeps(t) == Cardinality({i \in 1..Len(t) : t[i][1] = "sleep"})

(***************************************************************************)
(* APIClient (frontend/lib/api.ts).                                        *)
(***************************************************************************)
\* query's catch: validation errors are rethrown as they are, every other
\* error is wrapped in a new Error that embeds the original message
QueryCatch(e) ==
  IF e.err = "validation" THEN e ELSE [e EXCEPT !.wrapped = TRUE]

\* jobData.poll_interval_ms || 500
PollIntervalApi(opt) == IF opt = Undef \/ opt = 0 THEN DefaultPollIntervalMs ELSE opt

\* a pollJob whose loop lets one attempt too many through
PollJobGuardOffByOne(att, maxAtt) == att <= maxAtt

\* the while condition of pollJob
PollJobGuard(att, maxAtt) == att < maxAtt

\* a pollJob that polls again at once while the job is processing
PollJobBranchNoSleep(r) ==
  IF r.status = 0 THEN [do |-> "throw", e |-> Rejected("network", "none")]
  ELSE IF ~r.json THEN [do |-> "throw", e |-> Rejected("parse", "none")]
  ELSE IF r.status = 200 THEN
    IF r.result = "valid" THEN [do |-> "return", e |-> Resolved]
    ELSE [do |-> "throw", e |-> Rejected("validation", "none")]
  ELSE IF r.status = 500 THEN
    [do |-> "throw",
     e |-> Rejected("failed", IF r.msg # "none" THEN r.msg ELSE "Job processing failed")]
  ELSE IF r.status = 404 THEN [do |-> "throw", e |-> Rejected("notfound", "Job not found")]
  ELSE [do |-> "again", e |-> Pending]

\* the body of pollJob's loop, from the settled fetch to the next await
PollJobBranch(r) ==
  IF r.status = 0 THEN [do |-> "throw", e |-> Rejected("network", "none")]
  ELSE IF ~r.json THEN [do |-> "throw", e |-> Rejected("parse", "none")]
  ELSE IF r.status = 200 THEN
    IF r.result = "valid" THEN [do |-> "return", e |-> Resolved]
    ELSE [do |-> "throw", e |-> Rejected("validation", "none")]
  ELSE IF r.status = 500 THEN
    [do |-> "throw",
     e |-> Rejected("failed", IF r.msg # "none" THEN r.msg ELSE "Job processing failed")]
  ELSE IF r.status = 202 THEN [do |-> "sleep", e |-> Pending]
  ELSE IF r.status = 404 THEN [do |-> "throw", e |-> Rejected("notfound", "Job not found")]
  ELSE [do |-> "again", e |-> Pending]

\* a query that takes only status 200, not every ok status, as the result
QueryDispatchOnly200(r) ==
  IF r.status = 0 THEN [do |-> "throw", e |-> Rejected("network", "none")]
  ELSE IF r.status = 202 THEN
    IF r.json THEN [do |-> "poll", e |-> Pending]
    ELSE [do |-> "throw", e |-> Rejected("parse", "none")]
  ELSE IF r.status = 200 THEN
    IF ~r.json THEN [do |-> "throw", e |-> Rejected("parse", "none")]
    ELSE IF r.result = "valid" THEN [do |-> "return", e |-> Resolved]
    ELSE [do |-> "throw", e |-> Rejected("validation", "none")]
  ELSE [do |-> "throw", e |-> Rejected("submit", "Query failed")]

\* query's dispatch on the answer to the POST
QueryDispatch(r) ==
  IF r.status = 0 THEN [do |-> "throw", e |-> Rejected("network", "none")]
  ELSE IF r.status = 202 THEN
    IF r.json THEN [do |-> "poll", e |-> Pending]
    ELSE [do |-> "throw", e |-> Rejected("parse", "none")]
  ELSE IF Ok(r) THEN
    IF ~r.json THEN [do |-> "throw", e |-> Rejected("parse", "none")]
    ELSE IF r.result = "valid" THEN [do |-> "return", e |-> Resolved]
    ELSE [do |-> "throw", e |-> Rejected("validation", "none")]
  ELSE [do |-> "throw", e |-> Rejected("submit", "Query failed")]

\* the values of the progress field of a job answer (Undef: not reported)
ProgressValues == {Undef, 0, 50}

\* the progress field a job answer may carry: the backend reports progress
\* while the job is processing
ProgressOf(r) == IF r.json /\ r.status = 202 THEN ProgressValues ELSE {Undef}

\* a call of the progress callback: with a percentage (pollJob), or with the
\* validated job status object, which has no progress field (pollForResult)
ProgressCall(p, jb) == [percent |-> p, job |-> jb]

\* the calls of the progress callback pollJob makes for the answer r whose
\* body carries the progress p
PollJobProgress(r, p, cb) ==
  IF r.status # 0 /\ r.json /\ r.status = 202 /\ cb /\ p # Undef
  THEN <<ProgressCall(p, "none")>> ELSE <<>>

(***************************************************************************)
(* TypeSafeAPIClient (frontend/lib/api/client.ts).                         *)
(***************************************************************************)
\* pollingInterval = 1000
PollingIntervalTyped(opt) == IF opt = Undef THEN DefaultPollingInterval ELSE opt

\* schema.safeParse(data).success for the three schemas the client uses
SchemaAccepts(schema, r) ==
  CASE schema = "job" -> r.job \in {"queued", "processing", "completed", "failed"}
    [] schema = "result" -> r.result = "valid"
    [] schema = "endpoint" ->
         \/ r.job = "completed" /\ r.result = "valid"
         \/ r.job \in {"queued", "processing"}

\* request(endpoint, schema): the settled value of the returned promise
Request(r, schema) ==
  IF r.status = 0 \/ ~r.json THEN Rejected("network", "none")
  ELSE IF ~Ok(r) THEN Rejected("api", IF r.msg # "none" THEN r.msg ELSE "HTTP")
  ELSE IF ~SchemaAccepts(schema, r) THEN Rejected("validation", "Invalid response format")
  ELSE Resolved

\* the calls of the progress callback pollForResult makes for the answer r:
\* one for every status that passes AsyncJobResponseSchema, with the parsed
\* status object
PollForResultProgress(r, cb) ==
  IF cb /\ Request(r, "job").kind # "error"
  THEN <<ProgressCall(Undef, r.job)>> ELSE <<>>

\* the while condition of pollForResult
PollForResultGuard(t, maxT) == t < maxT

\* what the catch block of pollForResult does with an error thrown in the
\* loop body: "swallow" continues with the next iteration
PollForResultCatch(e) == "swallow"

\* the body of pollForResult's loop after the status request settled
PollForResultBranch(r) ==
  LET st == Request(r, "job") IN
  IF st.kind = "error" THEN [do |-> PollForResultCatch(st), e |-> st]
  ELSE IF r.job = "completed" THEN [do |-> "fetch", e |-> Pending]
  ELSE IF r.job = "failed" THEN
    LET e == Rejected("failed", IF r.msg # "none" THEN r.msg ELSE "Job failed")
    IN [do |-> PollForResultCatch(e), e |-> e]
  ELSE [do |-> "next", e |-> Pending]

\* the loop body after the request for the result settled
PollForResultFetched(r) ==
  LET st == Request(r, "result") IN
  IF st.kind = "error" THEN [do |-> PollForResultCatch(st), e |-> st]
  ELSE [do |-> "return", e |-> Resolved]

\* query's handling of the validated answer to the POST
TypedQueryDispatch(r) ==
  LET st == Request(r, "endpoint") IN
  IF st.kind = "error" THEN [do |-> "throw", e |-> st]
  ELSE IF r.job = "completed" THEN [do |-> "return", e |-> Resolved]
  ELSE [do |-> "poll", e |-> Pending]

(***************************************************************************)
(* Actions of one query invocation.                                        *)
(***************************************************************************)
Latencies == {0, UnitMs}

Timeout == Rejected("timeout", "Job timeout - exceeded maximum polling attempts")
PollingTimeout == Rejected("timeout", "Polling timeout exceeded")

\* the head of pollJob's while loop: fetch the job status or give up
ApiLoop(att, tr) ==
  IF PollJobGuard(att, maxAttempts)
  THEN [pc |-> "poll_wait", trace |-> Append(tr, PollEvent), inflight |-> 1,
        outcome |-> Pending]
  ELSE [pc |-> "done", trace |-> tr, inflight |-> 0, outcome |-> QueryCatch(Timeout)]

\* the head of pollForResult's while loop: sleep or give up
TypedLoop(t, tr, ms) ==
  IF PollForResultGuard(t, maxPollingTime)
  THEN [pc |-> "sleeping", trace |-> Append(tr, SleepEvent(ms)), inflight |-> 0,
        outcome |-> Pending]
  ELSE [pc |-> "done", trace |-> tr, inflight |-> 0, outcome |-> PollingTimeout]

QInit ==
  /\ client \in {"api", "typed"}
  /\ pc = "idle"
  /\ intervalOpt \in {Undef, UnitMs}
  /\ intervalMs = 0
  /\ maxAttempts \in (IF client = "api" THEN 1..MaxAttemptsBound ELSE {0})
  /\ attempts = 0
  /\ maxPollingTime \in
       (IF client = "typed" THEN {UnitMs * k : k \in 1..MaxBudgetUnits} ELSE {0})
  /\ now = 0
  /\ inflight = 0
  /\ trace = <<>>
  /\ answers = <<>>
  /\ postAnswer = NoAnswer
  /\ outcome = Pending
  /\ onProgress \in BOOLEAN
  /\ progress = <<>>
  /\ progressCalls = <<>>
  /\ cancelled = FALSE

\* query(request): the POST is sent
Query ==
  /\ pc = "idle"
  /\ pc' = "post_wait"
  /\ UNCHANGED <<client, intervalOpt, intervalMs, maxAttempts, attempts,
                 maxPollingTime, now, inflight, trace, answers, postAnswer, outcome,
                 onProgress, progress, progressCalls, cancelled>>

\* APIClient.query: the POST settled
ApiPostResponse(r) ==
  /\ client = "api" /\ pc = "post_wait"
  /\ postAnswer' = r
  /\ LET d == QueryDispatch(r)
         l == ApiLoop(0, trace)
     IN IF d.do = "poll"
        THEN /\ intervalMs' = PollIntervalApi(intervalOpt)
             /\ pc' = l.pc /\ trace' = l.trace /\ inflight' = l.inflight
             /\ outcome' = l.outcome
        ELSE /\ pc' = "done"
             /\ outcome' = IF d.do = "return" THEN d.e ELSE QueryCatch(d.e)
             /\ UNCHANGED <<intervalMs, trace, inflight>>
  /\ UNCHANGED <<client, intervalOpt, maxAttempts, attempts, maxPollingTime, now,
                 answers,
                 onProgress, progress, progressCalls, cancelled>>

\* APIClient.pollJob: the fetch of the job status settled
ApiPollResponse(r) ==
  /\ client = "api" /\ pc = "poll_wait"
  /\ answers' = Append(answers, r)
  /\ \E p \in ProgressOf(r) :
       /\ progress' = Append(progress, p)
       /\ progressCalls' = progressCalls \o PollJobProgress(r, p, onProgress)
  /\ LET b == PollJobBranch(r)
         l == ApiLoop(attempts, trace)
     IN /\ b.do = "again" => NumRequests(trace) < MaxRequests
        /\ CASE b.do = "sleep" ->
                  /\ pc' = "sleeping" /\ inflight' = 0
                  /\ trace' = Append(trace, SleepEvent(intervalMs))
                  /\ UNCHANGED outcome
             [] b.do = "again" ->
                  /\ pc' = l.pc /\ trace' = l.trace /\ inflight' = l.inflight
                  /\ outcome' = l.outcome
             [] OTHER ->
                  /\ pc' = "done" /\ inflight' = 0
                  /\ outcome' = IF b.do = "return" THEN b.e ELSE QueryCatch(b.e)
                  /\ UNCHANGED trace
  /\ UNCHANGED <<client, intervalOpt, intervalMs, maxAttempts, attempts,
                 maxPollingTime, now, postAnswer,
                 onProgress, cancelled>>

\* APIClient.pollJob: the setTimeout of the interval fired
ApiSleepDone ==
  /\ client = "api" /\ pc = "sleeping"
  /\ attempts' = attempts + 1
  /\ LET l == ApiLoop(attempts + 1, trace)
     IN /\ pc' = l.pc /\ trace' = l.trace /\ inflight' = l.inflight
        /\ outcome' = l.outcome
  /\ UNCHANGED <<client, intervalOpt, intervalMs, maxAttempts, maxPollingTime, now,
                 answers, postAnswer,
                 onProgress, progress, progressCalls, cancelled>>

\* TypeSafeAPIClient.query: the POST settled
TypedPostResponse(r) ==
  /\ client = "typed" /\ pc = "post_wait"
  /\ postAnswer' = r
  /\ LET d == TypedQueryDispatch(r)
         ms == PollingIntervalTyped(intervalOpt)
         l == TypedLoop(0, trace, ms)
     IN IF d.do = "poll"
        THEN /\ intervalMs' = ms
             /\ pc' = l.pc /\ trace' = l.trace /\ inflight' = l.inflight
             /\ outcome' = l.outcome
        ELSE /\ pc' = "done"
             /\ outcome' = d.e
             /\ UNCHANGED <<intervalMs, trace, inflight>>
  /\ UNCHANGED <<client, intervalOpt, maxAttempts, attempts, maxPollingTime, now,
                 answers,
                 onProgress, progress, progressCalls, cancelled>>

\* TypeSafeAPIClient.pollForResult: sleep(pollingInterval) ended, the status
\* request is sent
TypedSleepDone ==
  /\ client = "typed" /\ pc = "sleeping"
  /\ now' = now + intervalMs
  /\ pc' = "poll_wait"
  /\ trace' = Append(trace, PollEvent)
  /\ inflight' = inflight + 1
  /\ UNCHANGED <<client, intervalOpt, intervalMs, maxAttempts, attempts,
                 maxPollingTime, answers, postAnswer, outcome,
                 onProgress, progress, progressCalls, cancelled>>

\* TypeSafeAPIClient.pollForResult: the status request settled
TypedPollResponse(r, lat) ==
  /\ client = "typed" /\ pc = "poll_wait"
  /\ answers' = Append(answers, r)
  /\ \E p \in ProgressOf(r) :
       /\ progress' = Append(progress, p)
       /\ progressCalls' = progressCalls \o PollForResultProgress(r, onProgress)
  /\ now' = now + lat
  /\ LET b == PollForResultBranch(r)
         l == TypedLoop(now + lat, trace, intervalMs)
     IN CASE b.do = "fetch" ->
               /\ pc' = "result_wait" /\ inflight' = 1
               /\ trace' = Append(trace, FetchEvent)
               /\ UNCHANGED outcome
          [] b.do \in {"next", "swallow"} ->
               /\ pc' = l.pc /\ trace' = l.trace /\ inflight' = l.inflight
               /\ outcome' = l.outcome
          [] OTHER ->
               /\ pc' = "done" /\ inflight' = 0 /\ outcome' = b.e
               /\ UNCHANGED trace
  /\ UNCHANGED <<client, intervalOpt, intervalMs, maxAttempts, attempts,
                 maxPollingTime, postAnswer,
                 onProgress, cancelled>>

\* TypeSafeAPIClient.pollForResult: the request for the result settled
TypedResultResponse(r, lat) ==
  /\ client = "typed" /\ pc = "result_wait"
  /\ answers' = Append(answers, r)
  /\ progress' = Append(progress, Undef)
  /\ UNCHANGED progressCalls
  /\ now' = now + lat
  /\ LET b == PollForResultFetched(r)
         l == TypedLoop(now + lat, trace, intervalMs)
     IN CASE b.do = "swallow" ->
               /\ pc' = l.pc /\ trace' = l.trace /\ inflight' = l.inflight
               /\ outcome' = l.outcome
          [] OTHER ->
               /\ pc' = "done" /\ inflight' = 0 /\ outcome' = b.e
               /\ UNCHANGED trace
  /\ UNCHANGED <<client, intervalOpt, intervalMs, maxAttempts, attempts,
                 maxPollingTime, postAnswer,
                 onProgress, cancelled>>

\* the component that called query from handleSubmit unmounts while the
\* query is pending: nothing is passed to query, pollJob or pollForResult
\* that they could observe
Unmount ==
  /\ pc \notin {"idle", "done"} /\ ~cancelled
  /\ cancelled' = TRUE
  /\ UNCHANGED <<client, pc, intervalOpt, intervalMs, maxAttempts, attempts,
                 maxPollingTime, now, inflight, trace, answers, postAnswer, outcome,
                 onProgress, progress, progressCalls>>

(***************************************************************************)
(* FetchWrapper (frontend/lib/api/fetch-wrapper.ts).                       *)
(***************************************************************************)
\* largest retries option given to the constructor or to a call
MaxRetriesBound == 2

\* this.defaultTimeout = options.timeout || 10000
DefaultTimeout == 10000
\* this.defaultRetries = options.retries || 2
DefaultRetries == 2
\* this.defaultRetryDelay = options.retryDelay || 1000
DefaultRetryDelay == 1000

\* an answer to one HTTP attempt: status 0 is a transport failure (fetch
\* rejects), json says whether the body parses as JSON, ctjson whether the
\* content-type header names application/json
FAnswer(s, j, c) == [status |-> s, json |-> j, ctjson |-> c]

Ok200 == FAnswer(200, TRUE, TRUE)
S503 == FAnswer(503, TRUE, TRUE)

FetchAnswers ==
  { Ok200, S503,
    FAnswer(200, FALSE, FALSE),
    FAnswer(200, FALSE, TRUE),
    FAnswer(204, FALSE, FALSE),
    FAnswer(404, TRUE, TRUE),
    FAnswer(422, TRUE, TRUE),
    FAnswer(422, FALSE, FALSE),
    FAnswer(500, TRUE, TRUE),
    FAnswer(503, FALSE, FALSE),
    FAnswer(0, FALSE, FALSE) }

VARIABLES
  fpc,          \* "idle", "wait" (fetch pending), "sleeping" (backoff), "done"
  ctorRetries,  \* options.retries given to the constructor, or Undef
  callRetries,  \* options.retries given to fetch, or Undef
  retries,      \* fetch's retries
  retryDelay,   \* fetch's retryDelay
  timeoutMs,    \* fetch's timeout
  attempt,      \* the loop variable of fetch
  fclock,       \* time since fetch was called (when the timer was armed)
  aborted,      \* requestOptions.signal.aborted
  fcalls,       \* number of HTTP attempts made
  sleeps,       \* the backoff sleeps, in order
  flog,         \* the answers received, in order
  fout,         \* how the promise returned by fetch settled
  attemptStart, \* fclock when the current HTTP attempt was started
  hclient,      \* whose healthCheck is running: "wrapper" (FetchWrapper),
                \* "typed" (TypeSafeAPIClient), "none" (a plain fetch call)
  hpc,          \* healthCheck: "idle", "wait", "done"
  hlog,         \* the answers to the bare fetch of the typed healthCheck
  health        \* how healthCheck settled: "pending", "true", "false", "raised"

fvars == <<fpc, ctorRetries, callRetries, retries, retryDelay, timeoutMs, attempt,
           fclock, aborted, fcalls, sleeps, flog, fout, attemptStart, hclient, hpc,
           hlog, health>>

FPending == [kind |-> "pending", name |-> "none", status |-> 0]
FReturned(r) == [kind |-> "ok", name |-> "none", status |-> r.status]
FError(n, st) == [kind |-> "error", name |-> n, status |-> st]
AbortError == FError("AbortError", 0)

\* constructor: this.defaultRetries = options.retries || 2
CtorRetries(opt) == IF opt = Undef \/ opt = 0 THEN DefaultRetries ELSE opt

\* fetch: const { retries = this.defaultRetries } = options
CallRetries(opt, dflt) == IF opt = Undef THEN dflt ELSE opt

\* a retry loop that stops one attempt early
RetryLoopGuardStrict(att, k) == att < k

\* the condition of the retry loop: attempt <= retries
RetryLoopGuard(att, k) == att <= k

\* sleep(retryDelay * attempt)
BackoffDelay(d, att) == d * att

\* a catch block that treats an abort like any other failure
FetchCatchRetryAbort(e, att, k) ==
  IF e.status # 0 /\ e.status >= 400 /\ e.status < 500
  THEN [do |-> "throw", e |-> e]
  ELSE IF att = k THEN [do |-> "throw", e |-> e]
  ELSE [do |-> "retry", e |-> e]

\* the catch block of the retry loop
FetchCatch(e, att, k) ==
  IF e.name = "AbortError" \/ (e.status # 0 /\ e.status >= 400 /\ e.status < 500)
  THEN [do |-> "throw", e |-> e]
  ELSE IF att = k THEN [do |-> "throw", e |-> e]
  ELSE [do |-> "retry", e |-> e]

\* reading the body of a non-ok response: response.json(), and when that
\* throws, response.text() on the body json() has already consumed
ErrorBody(r) == IF r.json THEN "data" ELSE "TypeError"

\* the try block of the retry loop after fetch settled with the answer r
FetchTry(r, att, k) ==
  IF r.status = 0 THEN FetchCatch(FError("TypeError", 0), att, k)
  ELSE IF ~Ok(r) THEN
    IF ErrorBody(r) = "TypeError" THEN FetchCatch(FError("TypeError", 0), att, k)
    ELSE IF r.status >= 400 /\ r.status < 500
      THEN FetchCatch(FError("HTTPError", r.status), att, k)
    ELSE IF att = k THEN FetchCatch(FError("HTTPError", r.status), att, k)
    ELSE [do |-> "retry", e |-> FError("HTTPError", r.status)]
  ELSE IF r.ctjson /\ ~r.json THEN FetchCatch(FError("SyntaxError", 0), att, k)
  ELSE [do |-> "return", e |-> FReturned(r)]

\* the next iteration of the retry loop: back off, or leave the loop and
\* throw lastError
FetchLoop(att, last) ==
  IF RetryLoopGuard(att, retries)
  THEN [fpc |-> "sleeping", sleeps |-> Append(sleeps, BackoffDelay(retryDelay, att)),
        fout |-> FPending]
  ELSE [fpc |-> "done", sleeps |-> sleeps, fout |-> last]

RetryOptions == {Undef} \cup 0..MaxRetriesBound

\* healthCheck: this.get('/dev/health', { timeout: 5000 })
HealthCheckTimeout == 5000

\* a healthCheck without its try / catch
WrapperHealthCheckNoCatch(fo) ==
  IF fo.kind = "ok" THEN (IF fo.status = 200 THEN "true" ELSE "false") ELSE "raised"

\* FetchWrapper.healthCheck once this.get settled with fo: response.status
\* === 200, and false from the catch block when get threw
WrapperHealthCheck(fo) ==
  IF fo.kind = "ok" THEN (IF fo.status = 200 THEN "true" ELSE "false") ELSE "false"

\* TypeSafeAPIClient.healthCheck once its fetch settled with the answer r:
\* response.ok, and false from the catch block when fetch rejected
TypedHealthCheck(r) ==
  IF r.status = 0 THEN "false" ELSE IF Ok(r) THEN "true" ELSE "false"

FInit ==
  /\ fpc = "idle"
  /\ hclient \in {"none", "wrapper", "typed"}
  /\ ctorRetries \in (IF hclient = "typed" THEN {Undef} ELSE RetryOptions)
  /\ callRetries \in (IF hclient = "none" THEN RetryOptions ELSE {Undef})
  /\ retries = 0
  /\ retryDelay \in
       (IF hclient = "typed" THEN {DefaultRetryDelay} ELSE {DefaultRetryDelay, UnitMs})
  /\ timeoutMs \in
       (CASE hclient = "none" -> {DefaultTimeout, 2 * UnitMs}
          [] hclient = "wrapper" -> {HealthCheckTimeout}
          [] OTHER -> {DefaultTimeout})
  /\ attempt = 0
  /\ fclock = 0
  /\ aborted = FALSE
  /\ fcalls = 0
  /\ sleeps = <<>>
  /\ flog = <<>>
  /\ fout = FPending
  /\ attemptStart = 0
  /\ hpc = "idle"
  /\ hlog = <<>>
  /\ health = "pending"

\* the continuation of FetchWrapper.healthCheck: it runs when the promise of
\* this.get settles
WrapperHealthSettles ==
  /\ IF hclient = "wrapper" /\ fpc' = "done"
     THEN hpc' = "done" /\ health' = WrapperHealthCheck(fout')
     ELSE hpc' = (IF hclient = "wrapper" THEN "wait" ELSE hpc) /\ UNCHANGED health
  /\ UNCHANGED <<hclient, hlog>>

\* the head of fetch: the options are resolved, the timer is armed and the
\* first attempt is made
FetchBegin ==
  /\ fpc = "idle"
  /\ retries' = CallRetries(callRetries, CtorRetries(ctorRetries))
  /\ attemptStart' = fclock
  /\ IF RetryLoopGuard(0, retries')
     THEN /\ fpc' = "wait" /\ fcalls' = 1 /\ UNCHANGED fout
     ELSE /\ fpc' = "done" /\ fout' = FError("Error", 0) /\ UNCHANGED fcalls
  /\ UNCHANGED <<ctorRetries, callRetries, retryDelay, timeoutMs, attempt, fclock,
                 aborted, sleeps, flog>>

\* fetch(endpoint, options) called by a user of the wrapper
FwCall ==
  /\ hclient = "none"
  /\ FetchBegin
  /\ WrapperHealthSettles

\* FetchWrapper.healthCheck(): get, and so fetch, is called with timeout 5000
FwHealthCheck ==
  /\ hclient = "wrapper" /\ hpc = "idle"
  /\ FetchBegin
  /\ WrapperHealthSettles

\* the pending fetch settled before the timer fired
FwResponse(r, lat) ==
  /\ fpc = "wait"
  /\ fclock + lat < timeoutMs
  /\ fclock' = fclock + lat
  /\ flog' = Append(flog, r)
  /\ LET t == FetchTry(r, attempt, retries)
         l == FetchLoop(attempt + 1, t.e)
     IN IF t.do = "retry"
        THEN /\ attempt' = attempt + 1
             /\ fpc' = l.fpc /\ sleeps' = l.sleeps /\ fout' = l.fout
        ELSE /\ fpc' = "done" /\ fout' = t.e
             /\ UNCHANGED <<attempt, sleeps>>
  /\ UNCHANGED <<ctorRetries, callRetries, retries, retryDelay, timeoutMs, aborted,
                 fcalls, attemptStart>>
  /\ WrapperHealthSettles

\* the timer armed by createTimeoutSignal fired while a fetch was pending
FwAbort ==
  /\ fpc = "wait"
  /\ fclock' = timeoutMs
  /\ aborted' = TRUE
  /\ LET t == FetchCatch(AbortError, attempt, retries)
         l == FetchLoop(attempt + 1, t.e)
     IN IF t.do = "retry"
        THEN /\ attempt' = attempt + 1
             /\ fpc' = l.fpc /\ sleeps' = l.sleeps /\ fout' = l.fout
        ELSE /\ fpc' = "done" /\ fout' = t.e
             /\ UNCHANGED <<attempt, sleeps>>
  /\ UNCHANGED <<ctorRetries, callRetries, retries, retryDelay, timeoutMs, fcalls,
                 flog, attemptStart>>
  /\ WrapperHealthSettles

\* the backoff sleep ended and fetch is called again with the same signal;
\* when the timer has fired meanwhile the call rejects at once
FwSleepDone ==
  /\ fpc = "sleeping"
  /\ LET t2 == fclock + sleeps[Len(sleeps)]
         fired == aborted \/ t2 >= timeoutMs
         t == FetchCatch(AbortError, attempt, retries)
         l == FetchLoop(attempt + 1, t.e)
     IN /\ fclock' = t2
        /\ attemptStart' = t2
        /\ aborted' = fired
        /\ IF ~fired
           THEN /\ fpc' = "wait" /\ fcalls' = fcalls + 1
                /\ UNCHANGED <<attempt, sleeps, fout>>
           ELSE IF t.do = "retry"
           THEN /\ attempt' = attempt + 1
                /\ fpc' = l.fpc /\ sleeps' = l.sleeps /\ fout' = l.fout
                /\ UNCHANGED fcalls
           ELSE /\ fpc' = "done" /\ fout' = t.e
                /\ UNCHANGED <<attempt, sleeps, fcalls>>
  /\ UNCHANGED <<ctorRetries, callRetries, retries, retryDelay, timeoutMs, flog>>
  /\ WrapperHealthSettles

\* the variables of a call of FetchWrapper.fetch
fetchVars == <<fpc, ctorRetries, callRetries, retries, retryDelay, timeoutMs, attempt,
               fclock, aborted, fcalls, sleeps, flog, fout, attemptStart>>

\* TypeSafeAPIClient.healthCheck(): fetch(`${this.baseURL}/dev/health`)
HealthCheckCall ==
  /\ hclient = "typed" /\ hpc = "idle"
  /\ hpc' = "wait"
  /\ UNCHANGED <<fetchVars, hclient, hlog, health>>

\* TypeSafeAPIClient.healthCheck: the fetch settled
HealthCheckResponse(r) ==
  /\ hclient = "typed" /\ hpc = "wait"
  /\ hlog' = Append(hlog, r)
  /\ health' = TypedHealthCheck(r)
  /\ hpc' = "done"
  /\ UNCHANGED <<fetchVars, hclient>>

(***************************************************************************)
(* The validators of a parsed JSON payload: validateQueryResponse and      *)
(* validateUsageStats (frontend/types/api.ts) and the zod schemas          *)
(* (frontend/lib/api/schemas.ts).                                          *)
(* A JavaScript value of a numeric field is a number, a string or          *)
(* undefined (the key is missing).  Numbers are held in hundredths (0.42   *)
(* is 42, 1 is 100); a string is the sequence of its characters.           *)
(***************************************************************************)
\* largest length of model_metrics
MaxMetrics == 2
\* largest length of top_models
MaxModels == 2

JNum(n) == [type |-> "number", nan |-> FALSE, num |-> n, str |-> <<>>]
JNaN == [type |-> "number", nan |-> TRUE, num |-> 0, str |-> <<>>]
JStr(s) == [type |-> "string", nan |-> FALSE, num |-> 0, str |-> s]
JUndefined == [type |-> "undefined", nan |-> FALSE, num |-> 0, str |-> <<>>]

Digits == <<"0", "1", "2", "3", "4", "5", "6", "7", "8", "9">>
IsDigit(c) == \E d \in 1..Len(Digits) : Digits[d] = c
DigitVal(c) == (CHOOSE d \in 1..Len(Digits) : Digits[d] = c) - 1

RECURSIVE DigitPrefix(_)
\* the longest prefix of s made of decimal digits
DigitPrefix(s) ==
  IF s # <<>> /\ IsDigit(Head(s)) THEN <<Head(s)>> \o DigitPrefix(Tail(s)) ELSE <<>>

RECURSIVE Decimal(_)
\* the value of a sequence of decimal digits
Decimal(d) ==
  IF d = <<>> THEN 0
  ELSE Decimal(SubSeq(d, 1, Len(d) - 1)) * 10 + DigitVal(d[Len(d)])

\* the value, in hundredths, of the digits after the decimal point
Hundredths(f) ==
  (IF Len(f) >= 1 THEN DigitVal(f[1]) * 10 ELSE 0)
  + (IF Len(f) >= 2 THEN DigitVal(f[2]) ELSE 0)

\* how parseFloat reads the string s: an optional sign, digits, and an
\* optional point and digits are taken from the front of the string, and
\* whatever follows is ignored; len is the number of characters taken
FloatPrefix(s) ==
  LET neg == s # <<>> /\ Head(s) = "-"
      u == IF neg THEN Tail(s) ELSE s
      ip == DigitPrefix(u)
      rest == SubSeq(u, Len(ip) + 1, Len(u))
      dot == rest # <<>> /\ Head(rest) = "."
      fp == IF dot THEN DigitPrefix(Tail(rest)) ELSE <<>>
      pt == dot /\ (ip # <<>> \/ fp # <<>>)
      mag == Decimal(ip) * 100 + Hundredths(fp)
  IN [digits |-> Len(ip) + Len(fp),
      len |-> (IF neg THEN 1 ELSE 0) + Len(ip) + (IF pt THEN 1 + Len(fp) ELSE 0),
      num |-> IF neg THEN 0 - mag ELSE mag]

\* parseFloat(val)
ParseFloat(s) ==
  LET p == FloatPrefix(s) IN IF p.digits = 0 THEN JNaN ELSE JNum(p.num)

\* the outcome of parsing one field: ok says whether it passed, value is the
\* parsed value
FieldOk(v) == [ok |-> TRUE, value |-> v]
FieldFail == [ok |-> FALSE, value |-> JUndefined]

\* NumericField: a number, or a string transformed by parseFloat, refined
\* to be neither NaN nor infinite
NumericField(v) ==
  IF v.type = "number" THEN (IF v.nan THEN FieldFail ELSE FieldOk(v))
  ELSE IF v.type = "string"
    THEN LET n == ParseFloat(v.str) IN IF n.nan THEN FieldFail ELSE FieldOk(n)
  ELSE FieldFail

\* NumericField.optional().default(0)
NumericFieldDefault(v) ==
  IF v.type = "undefined" THEN FieldOk(JNum(0)) ELSE NumericField(v)

\* typeof v !== 'number' || v < lo || v > hi, with the bounds in hundredths
OutOfRange(v, lo, hi) == v.type # "number" \/ v.num < lo \/ v.num > hi

\* the result of a validator: the value returned, or the field (and for an
\* array the JavaScript index of the element) the error names
NoValue == [request_id |-> "undefined"]
VOk(v) == [ok |-> TRUE, field |-> "none", index |-> 0, value |-> v]
VErr(f, i) == [ok |-> FALSE, field |-> f, index |-> i, value |-> NoValue]
NotValidated == [ok |-> FALSE, field |-> "none", index |-> 0, value |-> NoValue]

\* the first position of the sequence of flags that holds TRUE, or 0: where
\* a forEach that throws on a bad element stops
FirstBad(flags) ==
  IF \E i \in 1..Len(flags) : flags[i]
  THEN CHOOSE i \in 1..Len(flags) : flags[i] /\ \A j \in 1..(i - 1) : ~flags[j]
  ELSE 0

\* validateQueryResponse(data)
validateQueryResponse(d) ==
  LET BadMetric(m) == OutOfRange(m.confidence, 0, 100)
      bad == FirstBad([i \in 1..Len(d.model_metrics.items) |-> BadMetric(d.model_metrics.items[i])])
  IN IF d.request_id = "undefined" THEN VErr("request_id", 0)
     ELSE IF d.answer = "undefined" THEN VErr("answer", 0)
     ELSE IF OutOfRange(d.confidence, 0, 100) THEN VErr("confidence", 0)
     ELSE IF d.winner_model = "undefined" THEN VErr("winner_model", 0)
     ELSE IF ~d.model_metrics.array THEN VErr("model_metrics", 0)
     ELSE IF bad # 0 THEN VErr("model_metrics.confidence", bad - 1)
     ELSE VOk(d)

\* ModelMetricsSchema.parse(m): the keys the schema does not name are dropped
ModelMetricsSchema(m) ==
  [model |-> m.model, confidence |-> NumericFieldDefault(m.confidence).value]

\* QueryResponseSchema.safeParse(data): model_metrics may be missing, no
\* range is checked, and the keys the schema does not name are dropped
QueryResponseSchema(d) ==
  LET BadMetric(m) == ~NumericFieldDefault(m.confidence).ok
      bad == FirstBad([i \in 1..Len(d.model_metrics.items) |-> BadMetric(d.model_metrics.items[i])])
  IN IF d.request_id = "undefined" THEN VErr("request_id", 0)
     ELSE IF d.answer = "undefined" THEN VErr("answer", 0)
     ELSE IF ~NumericField(d.confidence).ok THEN VErr("confidence", 0)
     ELSE IF d.winner_model = "undefined" THEN VErr("winner_model", 0)
     ELSE IF bad # 0 THEN VErr("model_metrics.confidence", bad - 1)
     ELSE VOk([request_id |-> d.request_id,
               answer |-> d.answer,
               confidence |-> NumericField(d.confidence).value,
               winner_model |-> d.winner_model,
               model_metrics |->
                 [array |-> d.model_metrics.array,
                  items |-> [i \in 1..Len(d.model_metrics.items) |->
                              ModelMetricsSchema(d.model_metrics.items[i])]]])

\* validateUsageStats(data)
validateUsageStats(d) ==
  LET BadPercentage(m) == OutOfRange(m.usage_percentage, 0, 10000)
      BadModel(m) == BadPercentage(m) \/ OutOfRange(m.avg_score, 0, 100)
      bad == FirstBad([i \in 1..Len(d.top_models.items) |-> BadModel(d.top_models.items[i])])
  IN IF d.total_requests.type # "number" \/ d.total_requests.num < 0
       THEN VErr("total_requests", 0)
     ELSE IF OutOfRange(d.avg_confidence, 0, 100) THEN VErr("avg_confidence", 0)
     ELSE IF ~d.top_models.array THEN VErr("top_models", 0)
     ELSE IF bad # 0 THEN
       VErr(IF BadPercentage(d.top_models.items[bad])
            THEN "top_models.usage_percentage" ELSE "top_models.avg_score", bad - 1)
     ELSE VOk(d)

\* ModelUsageSchema.parse(m): avg_score and avg_response_time default to 0
ModelUsageSchema(m) ==
  [name |-> m.name,
   usage_percentage |-> NumericField(m.usage_percentage).value,
   avg_score |-> NumericFieldDefault(m.avg_score).value,
   avg_response_time |-> JNum(0)]

\* UsageStatsSchema.safeParse(data): total_requests is any number, no range
\* is checked, missing keys get their defaults and unnamed keys are dropped
UsageStatsSchema(d) ==
  LET BadPercentage(m) == ~NumericField(m.usage_percentage).ok
      BadModel(m) == BadPercentage(m) \/ ~NumericFieldDefault(m.avg_score).ok
      bad == FirstBad([i \in 1..Len(d.top_models.items) |-> BadModel(d.top_models.items[i])])
  IN IF d.total_requests.type # "number" THEN VErr("total_requests", 0)
     ELSE IF ~NumericField(d.avg_confidence).ok THEN VErr("avg_confidence", 0)
     ELSE IF ~d.top_models.array THEN VErr("top_models", 0)
     ELSE IF bad # 0 THEN
       VErr(IF BadPercentage(d.top_models.items[bad])
            THEN "top_models.usage_percentage" ELSE "top_models.avg_score", bad - 1)
     ELSE VOk([total_requests |-> d.total_requests,
               total_tokens |-> JNum(0),
               avg_confidence |-> NumericField(d.avg_confidence).value,
               top_models |->
                 [array |-> TRUE,
                  items |-> [i \in 1..Len(d.top_models.items) |->
                              ModelUsageSchema(d.top_models.items[i])]],
               daily_usage |-> <<>>,
               data_available |-> TRUE])

(***************************************************************************)
(* The payloads handed to the validators.                                  *)
(***************************************************************************)
S042 == <<"0", ".", "4", "2">>
S15 == <<"1", ".", "5">>
SAbc == <<"a", "b", "c">>
S042Abc == S042 \o SAbc

\* the sequences over S of length at most n
SeqsUpTo(S, n) == UNION {[1..k -> S] : k \in 0..n}

\* a JSON array, or a value that is not an array (the key is missing)
JArray(q) == [array |-> TRUE, items |-> q]
NotArray == [array |-> FALSE, items |-> <<>>]

ConfidenceInputs ==
  {JNum(0), JNum(42), JNum(100), JNum(150), JNum(0 - 50),
   JStr(S042), JStr(S15), JStr(SAbc), JStr(S042Abc), JUndefined}

MetricConfidenceInputs == {JNum(42), JNum(150), JStr(S042), JUndefined}

\* a ModelMetrics element as the backend sends it
Metric(m, c, w) ==
  [model |-> m, response |-> "text", confidence |-> c, rank_position |-> 1,
   is_winner |-> w]

MetricInputs ==
  {Metric(m, c, w) : m \in {"m1", "m2"}, c \in MetricConfidenceInputs, w \in BOOLEAN}

\* a QueryResponse payload as the backend sends it
Payload(rid, c, mm) ==
  [request_id |-> rid, answer |-> "text", confidence |-> c, winner_model |-> "m1",
   model_metrics |-> mm, reasoning |-> "why"]

QueryPayloads ==
  {Payload(rid, c, mm) :
     rid \in {"req-1", "undefined"}, c \in ConfidenceInputs,
     mm \in {NotArray} \cup {JArray(q) : q \in SeqsUpTo(MetricInputs, MaxMetrics)}}

\* an element of top_models as the backend sends it
ModelUsage(p, s) == [name |-> "m1", usage_percentage |-> p, avg_score |-> s]

ModelUsageInputs ==
  {ModelUsage(p, s) : p \in {JNum(4500), JNum(15000)},
                      s \in {JNum(90), JNum(150), JUndefined}}

\* a usage-statistics payload as the backend sends it
Stats(n, c, tm) ==
  [total_requests |-> n, avg_confidence |-> c, top_models |-> tm,
   message |-> "none"]

UsagePayloads ==
  {Stats(n, c, tm) :
     n \in {JNum(0 - 100), JNum(0), JNum(284700), JUndefined},
     c \in {JNum(85), JNum(150), JStr(S042)},
     tm \in {NotArray} \cup {JArray(q) : q \in SeqsUpTo(ModelUsageInputs, MaxModels)}}

VARIABLES
  vkind,      \* "query": a QueryResponse payload, "usage": a usage-stats payload
  input,      \* the payload
  validator,  \* the validator applied to it, "none" before
  vout        \* what the validator returned or threw

vvars == <<vkind, input, validator, vout>>

VInit ==
  /\ vkind \in {"query", "usage"}
  /\ input \in (IF vkind = "query" THEN QueryPayloads ELSE UsagePayloads)
  /\ validator = "none"
  /\ vout = NotValidated

\* APIClient.query / pollJob: return validateQueryResponse(data)
ValidateQueryResponse ==
  /\ vkind = "query" /\ validator = "none"
  /\ validator' = "validateQueryResponse"
  /\ vout' = validateQueryResponse(input)
  /\ UNCHANGED <<vkind, input>>

\* TypeSafeAPIClient.request: QueryResponseSchema.safeParse(data)
ParseQueryResponse ==
  /\ vkind = "query" /\ validator = "none"
  /\ validator' = "QueryResponseSchema"
  /\ vout' = QueryResponseSchema(input)
  /\ UNCHANGED <<vkind, input>>

\* APIClient.getUsageStats: return validateUsageStats(data)
ValidateUsageStats ==
  /\ vkind = "usage" /\ validator = "none"
  /\ validator' = "validateUsageStats"
  /\ vout' = validateUsageStats(input)
  /\ UNCHANGED <<vkind, input>>

\* TypeSafeAPIClient.getUsageStats: UsageStatsSchema.safeParse(data)
ParseUsageStats ==
  /\ vkind = "usage" /\ validator = "none"
  /\ validator' = "UsageStatsSchema"
  /\ vout' = UsageStatsSchema(input)
  /\ UNCHANGED <<vkind, input>>

(***************************************************************************)
(* The usage statistics: APIClient.safeRequest / getUsageStats             *)
(* (frontend/lib/api.ts), the proxy route GET /api/usage/stats             *)
(* (frontend/app/api/usage/stats/route.ts) and the four consumers that     *)
(* keep the statistics in React state: useUsageStats of hooks/use-api.ts,  *)
(* useUsageStats of hooks/use-stats.ts, and fetchUsageStats of app/page    *)
(* and app/dashboard/page.                                                 *)
(***************************************************************************)
\* largest number of fetches one consumer starts by mount, timer or refetch
MaxFetches == 2

\* useState(null)
NullStats == [null |-> TRUE]

\* two different acceptable payloads, and one validateUsageStats rejects
StatsA == Stats(JNum(0), JNum(85), JArray(<<>>))
StatsB == Stats(JNum(284700), JNum(42), JArray(<<ModelUsage(JNum(4500), JNum(90))>>))
InvalidStats == Stats(JNum(0 - 100), JNum(85), JArray(<<>>))

\* the JSON body of an error answer
ErrorJson == [message |-> "error"]

\* use-api.ts: the statistics set when getUsageStats throws
FallbackStats ==
  [total_requests |-> JNum(284700), avg_confidence |-> JNum(94),
   top_models |-> JArray(<<ModelUsage(JNum(4200), JNum(95))>>)]

\* route.ts: defaultData
DefaultData ==
  [total_requests |-> JNum(0), avg_confidence |-> JNum(0), top_models |-> JArray(<<>>),
   data_available |-> FALSE, message |-> "Unable to fetch usage statistics"]

\* dashboard/page.tsx: the statistics set when the fetch fails
DashboardFallback ==
  [total_requests |-> JNum(0), avg_confidence |-> JNum(0), top_models |-> JArray(<<>>),
   data_available |-> FALSE, message |-> "Statistics not available"]

\* an answer to a fetch of the statistics: status 0 is a transport failure,
\* whose TypeError message names 'fetch' or not, depending on the browser
SAnswer(s, j, b, w) == [status |-> s, json |-> j, body |-> b, word |-> w]

StatsAnswers ==
  { SAnswer(200, TRUE, StatsA, "none"),
    SAnswer(200, TRUE, StatsB, "none"),
    SAnswer(200, TRUE, InvalidStats, "none"),
    SAnswer(200, FALSE, NullStats, "none"),
    SAnswer(401, TRUE, ErrorJson, "none"),
    SAnswer(500, TRUE, ErrorJson, "none"),
    SAnswer(500, FALSE, NullStats, "none"),
    SAnswer(0, FALSE, NullStats, "fetch"),
    SAnswer(0, FALSE, NullStats, "load") }

Returned(b) == [ok |-> TRUE, body |-> b, err |-> "none"]
Thrown(e) == [ok |-> FALSE, body |-> NullStats, err |-> e]

\* APIClient.safeRequest
SafeRequest(r) ==
  IF r.status = 0 THEN Thrown("network")
  ELSE IF ~Ok(r) THEN Thrown(IF r.status \in {401, 403} THEN "auth" ELSE "http")
  ELSE IF ~r.json THEN Thrown("parse")
  ELSE Returned(r.body)

\* APIClient.getUsageStats: every failure is thrown again, wrapped
GetUsageStats(r) ==
  LET d == SafeRequest(r)
  IN IF ~d.ok THEN Thrown(d.err)
     ELSE IF ~validateUsageStats(d.body).ok THEN Thrown("validation")
     ELSE Returned(d.body)

\* GET of route.ts: the response to the browser for the backend's answer r
RouteGET(r) ==
  IF r.status = 0 \/ ~Ok(r) \/ ~r.json
  THEN SAnswer(200, TRUE, DefaultData, "none")
  ELSE SAnswer(200, TRUE, r.body, "none")

\* what a settled fetch does to the state: the new stats and error, and
\* whether a retry is scheduled
Effect(s, e, t) == [stats |-> s, error |-> e, retry |-> t]

\* use-api.ts useUsageStats.fetchStats, after getUsageStats settled
UseApiFetchStats(s, e, r) ==
  LET g == GetUsageStats(r)
  IN IF g.ok THEN Effect(g.body, e, FALSE) ELSE Effect(FallbackStats, e, FALSE)

\* use-stats.ts useUsageStats.fetchData, after fetch settled with a
UseStatsFetchData(s, e, a) ==
  IF a.status = 0 THEN Effect(s, "network", FALSE)
  ELSE IF ~Ok(a) THEN Effect(s, "http", FALSE)
  ELSE IF ~a.json THEN Effect(s, "parse", FALSE)
  ELSE Effect(a.body, e, FALSE)

\* use-stats.ts useUsageStats.refetch: fetch.then(json).then(setData)
\* .catch(setError), with no look at response.ok
UseStatsRefetch(s, e, a) ==
  IF a.status = 0 THEN Effect(s, "network", FALSE)
  ELSE IF ~a.json THEN Effect(s, "parse", FALSE)
  ELSE Effect(a.body, e, FALSE)

\* a fetchUsageStats that retries without looking at retryCount
PageFetchUsageStatsRetryAgain(s, e, a, retryCount) ==
  LET err == IF a.status = 0 THEN "network"
             ELSE IF ~Ok(a) THEN (IF a.status \in {401, 403} THEN "auth" ELSE "http")
             ELSE IF ~a.json THEN "parse"
             ELSE "none"
      named == err = "http" \/ (err = "network" /\ a.word = "fetch")
  IN IF err = "none" THEN Effect(a.body, e, FALSE)
     ELSE IF named THEN Effect(s, e, TRUE)
     ELSE Effect(NullStats, err, FALSE)

\* page.tsx fetchUsageStats(retryCount), after fetch settled with a
PageFetchUsageStats(s, e, a, retryCount) ==
  LET err == IF a.status = 0 THEN "network"
             ELSE IF ~Ok(a) THEN (IF a.status \in {401, 403} THEN "auth" ELSE "http")
             ELSE IF ~a.json THEN "parse"
             ELSE "none"
      \* err.message.includes('fetch') || err.message.includes('network')
      named == err = "http" \/ (err = "network" /\ a.word = "fetch")
  IN IF err = "none" THEN Effect(a.body, e, FALSE)
     ELSE IF retryCount = 0 /\ named THEN Effect(s, e, TRUE)
     ELSE Effect(NullStats, err, FALSE)

\* dashboard/page.tsx fetchUsageStats, after fetch settled with a
DashboardFetchUsageStats(s, e, a) ==
  IF a.status = 0 \/ ~Ok(a) \/ ~a.json
  THEN Effect(DashboardFallback, "unavailable", FALSE)
  ELSE Effect(a.body, e, FALSE)

VARIABLES
  holder,        \* "useApiStats", "useStats", "page", "dashboard"
  stats,         \* the stored statistics
  statsLoading,  \* the loading flag
  statsError,    \* the error state, "none" for null
  pendingStats,  \* the fetches in flight
  started,       \* the number of fetches started by mount, timer or refetch
  retryTimers,   \* the number of pending setTimeout(() => fetchUsageStats(1))
  slog           \* the fetches settled, in order, each with its answer

svars == <<holder, stats, statsLoading, statsError, pendingStats, started,
           retryTimers, slog>>

Holders == {"useApiStats", "useStats", "page", "dashboard"}

SInit ==
  /\ holder \in Holders
  /\ stats = NullStats
  /\ statsLoading = TRUE
  /\ statsError = "none"
  /\ pendingStats = {}
  /\ started = 0
  /\ retryTimers = 0
  /\ slog = <<>>

StatsFetch(i, k, n) == [id |-> i, kind |-> k, retryCount |-> n]

\* the number of fetches begun so far
Begun == Cardinality(pendingStats) + Len(slog)

\* the effect runs on mount, the interval fires, or the consumer calls
\* refetch: the error is cleared, the loading flag is set (the dashboard
\* page does not set it) and the fetch is sent
StartStatsFetch(k) ==
  /\ started < MaxFetches
  /\ k = "refetch" => holder = "useStats"
  /\ started' = started + 1
  /\ statsError' = "none"
  /\ statsLoading' = IF holder = "dashboard" THEN statsLoading ELSE TRUE
  /\ pendingStats' = pendingStats \cup {StatsFetch(Begun + 1, k, 0)}
  /\ UNCHANGED <<holder, stats, retryTimers, slog>>

\* page.tsx: the timer of the automatic retry fires, fetchUsageStats(1)
StatsRetryTimer ==
  /\ retryTimers > 0
  /\ retryTimers' = retryTimers - 1
  /\ statsError' = "none"
  /\ statsLoading' = TRUE
  /\ pendingStats' = pendingStats \cup {StatsFetch(Begun + 1, "fetch", 1)}
  /\ UNCHANGED <<holder, stats, started, slog>>

\* the fetch f settled: the backend answered r
SettleStatsFetch(f, r) ==
  /\ f \in pendingStats
  /\ LET a == IF holder = "useStats" THEN RouteGET(r) ELSE r
         x == CASE holder = "useApiStats" -> UseApiFetchStats(stats, statsError, r)
                [] holder = "useStats" /\ f.kind = "fetch" ->
                     UseStatsFetchData(stats, statsError, a)
                [] holder = "useStats" /\ f.kind = "refetch" ->
                     UseStatsRefetch(stats, statsError, a)
                [] holder = "page" ->
                     PageFetchUsageStats(stats, statsError, a, f.retryCount)
                [] OTHER -> DashboardFetchUsageStats(stats, statsError, a)
     IN /\ stats' = x.stats
        /\ statsError' = x.error
        /\ retryTimers' = IF x.retry THEN retryTimers + 1 ELSE retryTimers
        /\ slog' = Append(slog, [fetch |-> f, backend |-> r, response |-> a])
  /\ statsLoading' = FALSE
  /\ pendingStats' = pendingStats \ {f}
  /\ UNCHANGED <<holder, started>>

\* use-stats.ts: the request to the route itself fails or is answered by
\* something other than the route handler
SettleStatsDirect(f, a) ==
  /\ f \in pendingStats /\ holder = "useStats"
  /\ ~(Ok(a) /\ a.json)
  /\ LET x == IF f.kind = "fetch" THEN UseStatsFetchData(stats, statsError, a)
              ELSE UseStatsRefetch(stats, statsError, a)
     IN /\ stats' = x.stats
        /\ statsError' = x.error
        /\ slog' = Append(slog, [fetch |-> f, backend |-> a, response |-> a])
  /\ statsLoading' = FALSE
  /\ pendingStats' = pendingStats \ {f}
  /\ UNCHANGED <<holder, started, retryTimers>>

(***************************************************************************)
(* The Authorization header of the requests sent by FetchWrapper.fetch,    *)
(* TypeSafeAPIClient and APIClient.  An endpoint is the sequence of its    *)
(* path segments ('/dev/health' is <<"dev", "health">>); a key is a        *)
(* string, "" when it is not set.                                          *)
(***************************************************************************)
\* largest number of requests one client sends
MaxSent == 2

\* process.env.NEXT_PUBLIC_API_KEY
EnvKeys == {"", "env-key"}
\* the apiKey argument of the constructor of TypeSafeAPIClient
CtorKeys == {"", "ctor-key"}
\* API_KEY = process.env.NEXT_PUBLIC_API_KEY || 'nextagi_test-key-123'
DefaultApiKey == "nextagi_test-key-123"

\* endpoint.startsWith('/dev/')
StartsWithDev(e) == Len(e) > 1 /\ e[1] = "dev"

\* the endpoints given to FetchWrapper.fetch / get
WrapperEndpoints ==
  { <<"dev", "jobs", "stats">>, <<"dev", "health">>, <<"dev">>, <<"device", "list">>,
    <<"api", "v1", "usage">> }
\* the endpoints TypeSafeAPIClient gives to request
TypedEndpoints ==
  { <<"dev", "query">>, <<"dev", "jobs", "id">>, <<"api", "v1", "usage">>,
    <<"api", "v1", "usage", "today">>, <<"api", "v1", "models", "performance">>,
    <<"admin", "jobs">> }
\* the endpoints APIClient gives to safeRequest
SafeRequestEndpoints ==
  { <<"api", "v1", "usage">>, <<"api", "v1", "models">>, <<"api", "v1", "health">> }

NoAuthorization == <<>>
\* `Bearer ${key}`
Bearer(k) == <<"Bearer", k>>

\* FetchWrapper.fetch: headers.set('Authorization', ...) if (apiKey &&
\* !endpoint.startsWith('/dev/'))
WrapperAuthorization(key, e) ==
  IF key # "" /\ ~StartsWithDev(e) THEN Bearer(key) ELSE NoAuthorization

\* TypeSafeAPIClient: this.apiKey = apiKey || process.env.NEXT_PUBLIC_API_KEY
TypedApiKey(ctor, env) == IF ctor # "" THEN ctor ELSE env

\* a request method that attaches the key to every endpoint
TypedAuthorizationEverywhere(key, e) ==
  IF key # "" THEN Bearer(key) ELSE NoAuthorization

\* TypeSafeAPIClient.request: if (this.apiKey && !endpoint.startsWith('/dev/'))
TypedAuthorization(key, e) ==
  IF key # "" /\ ~StartsWithDev(e) THEN Bearer(key) ELSE NoAuthorization

\* the module constant API_KEY of api.ts
ApiKey(env) == IF env # "" THEN env ELSE DefaultApiKey

\* APIClient.safeRequest and APIClient.query:
\* ...(API_KEY && { 'Authorization': `Bearer ${API_KEY}` })
SafeRequestAuthorization(key) ==
  IF key # "" THEN Bearer(key) ELSE NoAuthorization

\* APIClient.pollJob: 'Authorization': `Bearer ${API_KEY}`
PollJobAuthorization(key) == Bearer(key)

VARIABLES
  aclient,   \* "wrapper", "typed", "api"; "none": no client in use
  envKey,    \* process.env.NEXT_PUBLIC_API_KEY
  ctorKey,   \* the apiKey given to the constructor of TypeSafeAPIClient
  sent       \* the requests sent, in order

avars == <<aclient, envKey, ctorKey, sent>>

\* a request as the server sees it
Sent(e, a) == [endpoint |-> e, authorization |-> a]

AInit ==
  /\ aclient \in {"wrapper", "typed", "api"}
  /\ envKey \in EnvKeys
  /\ ctorKey \in (IF aclient = "typed" THEN CtorKeys ELSE {""})
  /\ sent = <<>>

\* FetchWrapper.fetch(endpoint) sends its request
WrapperSend(e) ==
  /\ aclient = "wrapper" /\ Len(sent) < MaxSent
  /\ sent' = Append(sent, Sent(e, WrapperAuthorization(envKey, e)))
  /\ UNCHANGED <<aclient, envKey, ctorKey>>

\* TypeSafeAPIClient.request(endpoint, schema) sends its request
TypedSend(e) ==
  /\ aclient = "typed" /\ Len(sent) < MaxSent
  /\ sent' = Append(sent, Sent(e, TypedAuthorization(TypedApiKey(ctorKey, envKey), e)))
  /\ UNCHANGED <<aclient, envKey, ctorKey>>

\* TypeSafeAPIClient.healthCheck: fetch(`${this.baseURL}/dev/health`)
TypedHealthSend ==
  /\ aclient = "typed" /\ Len(sent) < MaxSent
  /\ sent' = Append(sent, Sent(<<"dev", "health">>, NoAuthorization))
  /\ UNCHANGED <<aclient, envKey, ctorKey>>

\* APIClient.safeRequest(endpoint) sends its request
SafeRequestSend(e) ==
  /\ aclient = "api" /\ Len(sent) < MaxSent
  /\ sent' = Append(sent, Sent(e, SafeRequestAuthorization(ApiKey(envKey))))
  /\ UNCHANGED <<aclient, envKey, ctorKey>>

\* APIClient.query sends its POST
QuerySend ==
  /\ aclient = "api" /\ Len(sent) < MaxSent
  /\ sent' = Append(sent, Sent(<<"api", "v1", "query">>,
                               SafeRequestAuthorization(ApiKey(envKey))))
  /\ UNCHANGED <<aclient, envKey, ctorKey>>

\* APIClient.pollJob sends a job-status request
PollJobSend ==
  /\ aclient = "api" /\ Len(sent) < MaxSent
  /\ sent' = Append(sent, Sent(<<"api", "v1", "jobs", "id">>,
                               PollJobAuthorization(ApiKey(envKey))))
  /\ UNCHANGED <<aclient, envKey, ctorKey>>

(***************************************************************************)
(* The progress callback of APIClient: setProgressCallback stores it in    *)
(* the field onProgress of the client, and every pollJob running on that   *)
(* client reads the field when a 202 answer arrives.                       *)
(***************************************************************************)
\* largest number of calls of setProgressCallback
MaxRegistrations == 2
\* largest number of 202 answers received by the queries of the client
MaxReports == 2

\* the callbacks a caller registers
Callbacks == {"f", "g"}
\* the queries in flight on the one client
QueryIds == {1, 2}

\* a pollJob that keeps using the callback that was registered when it began
PollJobCallbackAtStart(current, atStart) == atStart

\* pollJob: this.onProgress is read when the 202 answer is handled
PollJobCallback(current, atStart) == current

VARIABLES
  slot,        \* this.onProgress: "none" (undefined), or a callback
  registered,  \* the arguments of the calls of setProgressCallback, in order
  pollers,     \* per query: "idle", or the value of this.onProgress when its
               \* pollJob began, or "done"
  delivered    \* the calls of callbacks: which callback, by which query,
               \* with which percentage, after how many registrations

cvars == <<slot, registered, pollers, delivered>>

Delivery(cb, q, p, n) == [to |-> cb, query |-> q, percent |-> p, after |-> n]

CInit ==
  /\ slot = "none"
  /\ registered = <<>>
  /\ pollers = [q \in QueryIds |-> "idle"]
  /\ delivered = <<>>

\* setProgressCallback(callback): this.onProgress = callback
SetProgressCallback(cb) ==
  /\ Len(registered) < MaxRegistrations
  /\ slot' = cb
  /\ registered' = Append(registered, cb)
  /\ UNCHANGED <<pollers, delivered>>

\* query(request) was answered 202 and pollJob begins
BeginPollJob(q) ==
  /\ pollers[q] = "idle"
  /\ pollers' = [pollers EXCEPT ![q] = slot]
  /\ UNCHANGED <<slot, registered, delivered>>

\* pollJob of query q receives a 202 answer whose progress field is p
ProgressAnswer(q, p) ==
  /\ pollers[q] \notin {"idle", "done"}
  /\ Len(delivered) < MaxReports
  /\ LET cb == PollJobCallback(slot, pollers[q])
     IN delivered' =
          IF cb # "none" /\ p # Undef
          THEN Append(delivered, Delivery(cb, q, p, Len(registered)))
          ELSE delivered
  /\ UNCHANGED <<slot, registered, pollers>>

\* pollJob of query q returns or throws
EndPollJob(q) ==
  /\ pollers[q] \notin {"idle", "done"}
  /\ pollers' = [pollers EXCEPT ![q] = "done"]
  /\ UNCHANGED <<slot, registered, delivered>>

(***************************************************************************)
(* The formatters of frontend/lib/safe-formatters.ts.  A value to format   *)
(* is null, undefined, a number (finite, NaN, Infinity or -Infinity; a     *)
(* finite number is held in hundredths) or a string.  An option is None    *)
(* when it is not given and Some(v) when it is given as v.  A returned     *)
(* string is the sequence of its parts: a part is a literal text or the    *)
(* text a number-rendering call (toFixed, Intl.NumberFormat.format) gives  *)
(* for its arguments.                                                      *)
(***************************************************************************)
None == <<>>
Some(v) == <<v>>
\* option ?? dflt, and the default of a destructured or omitted parameter
OrElse(o, dflt) == IF o = None THEN dflt ELSE o[1]

FvNull == [type |-> "null", kind |-> "none", num |-> 0, str |-> <<>>]
FvUndefined == [type |-> "undefined", kind |-> "none", num |-> 0, str |-> <<>>]
FvNum(n) == [type |-> "number", kind |-> "finite", num |-> n, str |-> <<>>]
FvNaN == [type |-> "number", kind |-> "NaN", num |-> 0, str |-> <<>>]
FvInfinity == [type |-> "number", kind |-> "Infinity", num |-> 0, str |-> <<>>]
FvNegInfinity == [type |-> "number", kind |-> "-Infinity", num |-> 0, str |-> <<>>]
FvStr(s) == [type |-> "string", kind |-> "none", num |-> 0, str |-> s]

SInfinity == <<"I", "n", "f", "i", "n", "i", "t", "y">>
SDashes == <<"-", "-">>
SNA == <<"N", "/", "A">>

\* Number(value) of a string: the empty string is 0, a string that is a
\* decimal literal from end to end is its value, 'Infinity' is Infinity and
\* every other string is NaN
NumberOfString(s) ==
  IF s = <<>> THEN FvNum(0)
  ELSE IF s = SInfinity THEN FvInfinity
  ELSE LET p == FloatPrefix(s)
       IN IF p.digits > 0 /\ p.len = Len(s) THEN FvNum(p.num) ELSE FvNaN

\* typeof value === 'string' ? Number(value) : value
ToNumber(v) == IF v.type = "string" THEN NumberOfString(v.str) ELSE v

\* Number.isFinite(n)
NumberIsFinite(n) == n.type = "number" /\ n.kind = "finite"

\* ensureNumeric(value, defaultValue)
ensureNumeric(v, defaultValue) ==
  IF v.type \in {"null", "undefined"} THEN defaultValue
  ELSE IF NumberIsFinite(ToNumber(v)) THEN ToNumber(v) ELSE defaultValue

\* a literal part of a string, and the part a rendering call produces
Lit(s) == [fn |-> "literal", lit |-> s, num |-> 0, digits |-> 0]
Rendered(f, n, d) == [fn |-> f, lit |-> <<>>, num |-> n, digits |-> d]

\* what a call does: it returns a string or it throws
FReturn(parts) == [kind |-> "string", text |-> parts]
FThrow(e) == [kind |-> "throws", text |-> <<Lit(e)>>]
NotFormatted == [kind |-> "none", text |-> <<>>]

\* a template literal `${pre}${call}${post}`: it throws when the call does
Template(pre, r, post) ==
  IF r.kind = "throws" THEN r
  ELSE FReturn((IF pre = <<>> THEN <<>> ELSE <<Lit(pre)>>) \o r.text
               \o (IF post = <<>> THEN <<>> ELSE <<Lit(post)>>))

\* Number.prototype.toFixed(digits) throws a RangeError unless 0 <= digits
\* <= 100
ToFixedThrows(d) == d < 0 \/ d > 100

\* safeToFixed with the call of toFixed outside the try block
safeToFixedNoTry(v, decimals, trim, fallbackOpt) ==
  LET fallback == OrElse(fallbackOpt, SDashes)
      d == OrElse(decimals, 2)
      n == ToNumber(v)
  IN IF v.type \in {"null", "undefined"} THEN FReturn(<<Lit(fallback)>>)
     ELSE IF ~NumberIsFinite(n) THEN FReturn(<<Lit(fallback)>>)
     ELSE IF ToFixedThrows(d) THEN FThrow(<<"RangeError">>)
     ELSE IF OrElse(trim, FALSE) /\ d > 0
       THEN FReturn(<<Rendered("toFixed.trim", n.num, d)>>)
     ELSE FReturn(<<Rendered("toFixed", n.num, d)>>)

\* safeToFixed(value, decimals = 2, opts)
safeToFixed(v, decimals, trim, fallbackOpt) ==
  LET fallback == OrElse(fallbackOpt, SDashes)
      d == OrElse(decimals, 2)
      n == ToNumber(v)
  IN IF v.type \in {"null", "undefined"} THEN FReturn(<<Lit(fallback)>>)
     ELSE IF ~NumberIsFinite(n) THEN FReturn(<<Lit(fallback)>>)
     ELSE IF ToFixedThrows(d) THEN FReturn(<<Lit(fallback)>>)
     ELSE IF OrElse(trim, FALSE) /\ d > 0
       THEN FReturn(<<Rendered("toFixed.trim", n.num, d)>>)
     ELSE FReturn(<<Rendered("toFixed", n.num, d)>>)

\* new Intl.NumberFormat(locale, { ..., minimumFractionDigits,
\* maximumFractionDigits }) throws a RangeError for a malformed locale tag,
\* for a currency code that is not three letters, for a digits option
\* outside 0..100 and for a minimum above the maximum
LocaleTags == {"en-US", "de-DE"}
NumberFormatThrows(locale, currency, minFD, maxFD) ==
  \/ locale # None /\ locale[1] \notin LocaleTags
  \/ Len(currency) # 3
  \/ minFD < 0 \/ minFD > 100 \/ maxFD < 0 \/ maxFD > 100 \/ minFD > maxFD

SUSD == <<"U", "S", "D">>
SUS == <<"U", "S">>
Max(a, b) == IF a >= b THEN a ELSE b

\* safeCurrency(value, options)
safeCurrency(v, o) ==
  LET currency == OrElse(o.currency, SUSD)
      minimumFractionDigits == OrElse(o.minimumFractionDigits, 2)
      maximumFractionDigits == OrElse(o.maximumFractionDigits, 4)
      fallback == OrElse(o.fallback, SDashes)
      n == ensureNumeric(v, FvNaN)
  IN IF ~NumberIsFinite(n) THEN FReturn(<<Lit(fallback)>>)
     ELSE IF NumberFormatThrows(o.locale, currency, minimumFractionDigits,
                                maximumFractionDigits)
       THEN Template(<<"$">>,
                     safeToFixed(n, Some(Max(minimumFractionDigits, 0)), None,
                                 Some(fallback)),
                     <<>>)
     ELSE FReturn(<<Rendered("Intl.currency", n.num, maximumFractionDigits)>>)

\* safePercentage(value, opts); raw / 100 and pct * 100 are taken on the
\* hundredths
safePercentage(v, o) ==
  LET digits == OrElse(o.digits, 1)
      expectsFraction == OrElse(o.expectsFraction, TRUE)
      fallback == OrElse(o.fallback, SDashes)
      raw == ensureNumeric(v, FvNaN)
      pct == IF expectsFraction THEN raw.num ELSE raw.num \div 100
  IN IF ~NumberIsFinite(raw) THEN FReturn(<<Lit(fallback)>>)
     ELSE IF NumberFormatThrows(o.locale, SUSD, digits, digits)
       THEN Template(<<>>, safeToFixed(FvNum(pct * 100), Some(digits), None, Some(<<>>)),
                     <<"%">>)
     ELSE FReturn(<<Rendered("Intl.percent", pct, digits)>>)

\* safeTime(valueMs, options); the numbers are in hundredths, so 1000 ms is
\* 100000
safeTime(v, o) ==
  LET unit == OrElse(o.unit, "s")
      decimals == OrElse(o.decimals, 1)
      fallback == OrElse(o.fallback, SDashes)
      num == ensureNumeric(v, FvNaN)
      ms == num.num
      s == ms \div 1000
      m == s \div 60
      h == m \div 60
      Fixed(x, d, u) == Template(<<>>, safeToFixed(FvNum(x), Some(d), None, Some(<<>>)), u)
  IN IF ~NumberIsFinite(num) THEN FReturn(<<Lit(fallback)>>)
     ELSE IF unit = "ms" THEN Fixed(ms, decimals, <<"m", "s">>)
     ELSE IF unit = "auto" THEN
       IF ms < 100000 THEN Fixed(ms, 0, <<"m", "s">>)
       ELSE IF s < 6000 THEN Fixed(s, decimals, <<"s">>)
       ELSE IF m < 6000 THEN Fixed(m, decimals, <<"m">>)
       ELSE Fixed(h, decimals, <<"h">>)
     ELSE Fixed(s, decimals, <<"s">>)

\* the values and the options the formatters are applied to
FormatValues ==
  { FvNull, FvUndefined, FvNaN, FvInfinity, FvNegInfinity,
    FvNum(0), FvNum(42), FvNum(0 - 1234), FvNum(150000), FvNum(9000000),
    FvNum(540000000),
    FvStr(<<>>), FvStr(S042), FvStr(SAbc), FvStr(S042Abc), FvStr(SInfinity) }
\* the values safePercentage is applied to: pct * 100 of the largest value
\* does not fit the 32-bit integers of the model
PercentageValues == FormatValues \ {FvNum(540000000)}
DigitsOptions == {None, Some(0), Some(3), Some(0 - 1), Some(101)}
FallbackOptions == {None, Some(<<>>), Some(SNA)}
LocaleOptions == {None, Some("en-US"), Some("en_US")}

NoOptions ==
  [decimals |-> None, trim |-> None, fallback |-> None, locale |-> None,
   currency |-> None, minimumFractionDigits |-> None, maximumFractionDigits |-> None,
   digits |-> None, expectsFraction |-> None, unit |-> None]

SafeToFixedOptions ==
  { [NoOptions EXCEPT !.decimals = d, !.trim = t, !.fallback = f] :
      d \in DigitsOptions, t \in {None, Some(TRUE)}, f \in FallbackOptions }
SafeCurrencyOptions ==
  { [NoOptions EXCEPT !.locale = l, !.currency = c, !.minimumFractionDigits = d,
                      !.fallback = f] :
      l \in LocaleOptions, c \in {None, Some(SUSD), Some(SUS)},
      d \in {None, Some(0 - 1), Some(5), Some(101)}, f \in FallbackOptions }
SafePercentageOptions ==
  { [NoOptions EXCEPT !.locale = l, !.digits = d, !.expectsFraction = e,
                      !.fallback = f] :
      l \in LocaleOptions, d \in {None, Some(0), Some(0 - 1)},
      e \in {None, Some(FALSE)}, f \in FallbackOptions }
SafeTimeOptions ==
  { [NoOptions EXCEPT !.unit = u, !.decimals = d, !.fallback = f] :
      u \in {None, Some("ms"), Some("s"), Some("auto")},
      d \in {None, Some(0), Some(0 - 1)}, f \in FallbackOptions }

VARIABLES
  fmt,      \* the formatter applied
  fvalue,   \* its value argument
  fopts,    \* its options
  fresult   \* what the call did

mvars == <<fmt, fvalue, fopts, fresult>>

MInit ==
  /\ fmt \in {"safeToFixed", "safeCurrency", "safePercentage", "safeTime"}
  /\ fvalue \in (IF fmt = "safePercentage" THEN PercentageValues ELSE FormatValues)
  /\ fopts \in (CASE fmt = "safeToFixed" -> SafeToFixedOptions
                  [] fmt = "safeCurrency" -> SafeCurrencyOptions
                  [] fmt = "safePercentage" -> SafePercentageOptions
                  [] OTHER -> SafeTimeOptions)
  /\ fresult = NotFormatted

SafeToFixed ==
  /\ fmt = "safeToFixed" /\ fresult = NotFormatted
  /\ fresult' = safeToFixed(fvalue, fopts.decimals, fopts.trim, fopts.fallback)
  /\ UNCHANGED <<fmt, fvalue, fopts>>

SafeCurrency ==
  /\ fmt = "safeCurrency" /\ fresult = NotFormatted
  /\ fresult' = safeCurrency(fvalue, fopts)
  /\ UNCHANGED <<fmt, fvalue, fopts>>

SafePercentage ==
  /\ fmt = "safePercentage" /\ fresult = NotFormatted
  /\ fresult' = safePercentage(fvalue, fopts)
  /\ UNCHANGED <<fmt, fvalue, fopts>>

SafeTime ==
  /\ fmt = "safeTime" /\ fresult = NotFormatted
  /\ fresult' = safeTime(fvalue, fopts)
  /\ UNCHANGED <<fmt, fvalue, fopts>>

(***************************************************************************)
(* Specifications: one query invocation, one call of the wrapper, one      *)
(* application of a validator, and one consumer of the usage statistics.   *)
(***************************************************************************)
vars == <<qvars, fvars, vvars, svars, avars, cvars, mvars>>

\* what each specification leaves alone
notQuery == <<fvars, vvars, svars, avars, cvars, mvars>>
notFetch == <<qvars, vvars, svars, avars, cvars, mvars>>
notValidate == <<qvars, fvars, svars, avars, cvars, mvars>>
notStats == <<qvars, fvars, vvars, avars, cvars, mvars>>
notHeaders == <<qvars, fvars, vvars, svars, cvars, mvars>>
notCallback == <<qvars, fvars, vvars, svars, avars, mvars>>

notFormat == <<qvars, fvars, vvars, svars, avars, cvars>>

\* no formatter is applied
MIdle ==
  /\ fmt = "none" /\ fvalue = FvUndefined /\ fopts = NoOptions /\ fresult = NotFormatted

\* no callback is registered and no query is in flight
CIdle == CInit

\* no request is being prepared
AIdle == aclient = "none" /\ envKey = "" /\ ctorKey = "" /\ sent = <<>>

\* no consumer of the usage statistics is mounted
SIdle ==
  /\ holder = "none" /\ stats = NullStats /\ statsLoading = TRUE
  /\ statsError = "none" /\ pendingStats = {} /\ started = 0 /\ retryTimers = 0
  /\ slog = <<>>

\* no validator is in use
VIdle ==
  /\ vkind = "none" /\ input = NoValue /\ validator = "none" /\ vout = NotValidated

\* the wrapper is not in use
FIdle ==
  /\ fpc = "idle" /\ ctorRetries = Undef /\ callRetries = Undef /\ retries = 0
  /\ retryDelay = DefaultRetryDelay /\ timeoutMs = DefaultTimeout /\ attempt = 0
  /\ fclock = 0 /\ aborted = FALSE /\ fcalls = 0 /\ sleeps = <<>> /\ flog = <<>>
  /\ fout = FPending /\ attemptStart = 0 /\ hclient = "none" /\ hpc = "idle"
  /\ hlog = <<>> /\ health = "pending"

\* no query is in progress
QIdle ==
  /\ client = "api" /\ pc = "idle" /\ intervalOpt = Undef /\ intervalMs = 0
  /\ maxAttempts = 1 /\ attempts = 0 /\ maxPollingTime = 0 /\ now = 0
  /\ inflight = 0 /\ trace = <<>> /\ answers = <<>> /\ postAnswer = NoAnswer
  /\ outcome = Pending /\ onProgress = FALSE /\ progress = <<>>
  /\ progressCalls = <<>> /\ cancelled = FALSE

Init == QInit /\ FIdle /\ VIdle /\ SIdle /\ AIdle /\ CIdle /\ MIdle

Next ==
  \/ Query /\ UNCHANGED notQuery
  \/ \E r \in PostAnswers : ApiPostResponse(r) /\ UNCHANGED notQuery
  \/ \E r \in JobAnswers : ApiPollResponse(r) /\ UNCHANGED notQuery
  \/ ApiSleepDone /\ UNCHANGED notQuery
  \/ \E r \in PostAnswers : TypedPostResponse(r) /\ UNCHANGED notQuery
  \/ TypedSleepDone /\ UNCHANGED notQuery
  \/ \E r \in JobAnswers, lat \in Latencies : TypedPollResponse(r, lat) /\ UNCHANGED notQuery
  \/ \E r \in JobAnswers, lat \in Latencies : TypedResultResponse(r, lat) /\ UNCHANGED notQuery
  \/ Unmount /\ UNCHANGED notQuery

Spec == Init /\ [][Next]_vars

InitFetch == FInit /\ QIdle /\ VIdle /\ SIdle /\ AIdle /\ CIdle /\ MIdle

NextFetch ==
  \/ FwCall /\ UNCHANGED notFetch
  \/ FwHealthCheck /\ UNCHANGED notFetch
  \/ HealthCheckCall /\ UNCHANGED notFetch
  \/ \E r \in FetchAnswers : HealthCheckResponse(r) /\ UNCHANGED notFetch
  \/ \E r \in FetchAnswers, lat \in Latencies : FwResponse(r, lat) /\ UNCHANGED notFetch
  \/ FwAbort /\ UNCHANGED notFetch
  \/ FwSleepDone /\ UNCHANGED notFetch

SpecFetch == InitFetch /\ [][NextFetch]_vars

InitValidate == VInit /\ QIdle /\ FIdle /\ SIdle /\ AIdle /\ CIdle /\ MIdle

NextValidate ==
  \/ ValidateQueryResponse /\ UNCHANGED notValidate
  \/ ParseQueryResponse /\ UNCHANGED notValidate
  \/ ValidateUsageStats /\ UNCHANGED notValidate
  \/ ParseUsageStats /\ UNCHANGED notValidate

SpecValidate == InitValidate /\ [][NextValidate]_vars

InitStats == SInit /\ QIdle /\ FIdle /\ VIdle /\ AIdle /\ CIdle /\ MIdle

NextStats ==
  \/ \E k \in {"fetch", "refetch"} : StartStatsFetch(k) /\ UNCHANGED notStats
  \/ StatsRetryTimer /\ UNCHANGED notStats
  \/ \E f \in pendingStats, r \in StatsAnswers :
       SettleStatsFetch(f, r) /\ UNCHANGED notStats
  \/ \E f \in pendingStats, a \in StatsAnswers :
       SettleStatsDirect(f, a) /\ UNCHANGED notStats

SpecStats == InitStats /\ [][NextStats]_vars

InitHeaders == AInit /\ QIdle /\ FIdle /\ VIdle /\ SIdle /\ CIdle /\ MIdle

NextHeaders ==
  \/ \E e \in WrapperEndpoints : WrapperSend(e) /\ UNCHANGED notHeaders
  \/ \E e \in TypedEndpoints : TypedSend(e) /\ UNCHANGED notHeaders
  \/ TypedHealthSend /\ UNCHANGED notHeaders
  \/ \E e \in SafeRequestEndpoints : SafeRequestSend(e) /\ UNCHANGED notHeaders
  \/ QuerySend /\ UNCHANGED notHeaders
  \/ PollJobSend /\ UNCHANGED notHeaders

SpecHeaders == InitHeaders /\ [][NextHeaders]_vars

InitCallback == CInit /\ QIdle /\ FIdle /\ VIdle /\ SIdle /\ AIdle /\ MIdle

NextCallback ==
  \/ \E cb \in Callbacks : SetProgressCallback(cb) /\ UNCHANGED notCallback
  \/ \E q \in QueryIds : BeginPollJob(q) /\ UNCHANGED notCallback
  \/ \E q \in QueryIds, p \in ProgressValues :
       ProgressAnswer(q, p) /\ UNCHANGED notCallback
  \/ \E q \in QueryIds : EndPollJob(q) /\ UNCHANGED notCallback

SpecCallback == InitCallback /\ [][NextCallback]_vars

InitFormat == MInit /\ QIdle /\ FIdle /\ VIdle /\ SIdle /\ AIdle /\ CIdle

NextFormat ==
  \/ SafeToFixed /\ UNCHANGED notFormat
  \/ SafeCurrency /\ UNCHANGED notFormat
  \/ SafePercentage /\ UNCHANGED notFormat
  \/ SafeTime /\ UNCHANGED notFormat

SpecFormat == InitFormat /\ [][NextFormat]_vars

(***************************************************************************)
(* Properties of the query state machine.                                  *)
(***************************************************************************)
Last(q) == q[Len(q)]

\* the number of leading 'processing' answers of the job endpoint
ProcessingPrefix(a) ==
  CHOOSE n \in 0..Len(a) :
    /\ \A i \in 1..n : a[i] = Processing
    /\ n = Len(a) \/ a[n + 1] # Processing

\* the job endpoint answered 'processing' N times and 'completed' since
ThenCompleted(a) ==
  /\ ProcessingPrefix(a) < Len(a)
  /\ \A i \in (ProcessingPrefix(a) + 1)..Len(a) : a[i] = Completed

\* the job endpoint has answered, and only ever 'processing'
AlwaysProcessing(a) == Len(a) > 0 /\ \A i \in 1..Len(a) : a[i] = Processing

\* between two consecutive events of the kinds ks of the trace t there is
\* exactly one sleep of ms milliseconds, and nothing else
OneSleepBetween(t, ks, ms) ==
  \A i, j \in 1..Len(t) :
    (/\ i < j /\ t[i][1] \in ks /\ t[j][1] \in ks
     /\ \A m \in (i + 1)..(j - 1) : t[m][1] \notin ks)
    => (j = i + 2 /\ t[i + 1] = SleepEvent(ms))

\* the interval the caller configured
ConfiguredInterval ==
  IF intervalOpt # Undef THEN intervalOpt
  ELSE IF client = "api" THEN DefaultPollIntervalMs ELSE DefaultPollingInterval

BudgetExceeded ==
  IF client = "api" THEN NumPolls(trace) >= maxAttempts ELSE now >= maxPollingTime

C2_TimedOut ==
  AlwaysProcessing(answers) =>
    /\ pc = "done" => outcome.kind = "error" /\ outcome.err = "timeout" /\ BudgetExceeded
    /\ client = "api" => NumPolls(trace) <= maxAttempts
    /\ (BudgetExceeded /\ pc \notin {"poll_wait", "sleeping"}) => pc = "done"
    /\ (BudgetExceeded /\ pc = "sleeping") => client = "api"

\* C2: while the job endpoint only answers 'processing', the query rejects
\* with the polling-timeout error once the budget (maxAttempts polls, or
\* maxPollingTime) is used up, and only then; after the query has settled
\* no request is made.
C2_PollingTimeout ==
  [][C2_TimedOut' /\ (pc = "done" => trace' = trace)]_vars

C2_Witness ==
  /\ client = "api" /\ maxAttempts = 2 /\ pc = "done"
  /\ answers = <<Processing, Processing>>
  /\ outcome.err = "timeout"

\* the body of a POST answer carries a query response
CarriesResponse(r) == r.json /\ r.job = "completed"
\* the body of a POST answer describes an accepted job
CarriesJob(r) == r.json /\ r.job \in {"queued", "processing"}

ValidationFailed == outcome.kind = "error" /\ outcome.err = "validation"

\* C3 as stated: a 200 answer to the POST is validated and returned with no
\* request to the job endpoint, a 202 answer starts polling, and any other
\* status raises an error at once with no request to the job endpoint.
C3_SubmissionDispatchAsStated ==
  postAnswer # NoAnswer =>
    /\ (postAnswer.status = 200 /\ CarriesResponse(postAnswer)) =>
         /\ pc = "done" /\ trace = <<>>
         /\ IF postAnswer.result = "valid" THEN outcome = Resolved ELSE ValidationFailed
    /\ (postAnswer.status = 202 /\ CarriesJob(postAnswer)) => trace # <<>>
    /\ postAnswer.status \notin {200, 202} =>
         pc = "done" /\ outcome.kind = "error" /\ trace = <<>>

\* C3 amended: a 2xx answer other than 202 that carries a query response is
\* validated and returned with no request to the job endpoint, a 202 answer
\* that describes a job starts polling, and any non-2xx status raises an
\* error at once with no request to the job endpoint.
C3_SubmissionDispatch ==
  postAnswer # NoAnswer =>
    /\ (Ok(postAnswer) /\ postAnswer.status # 202 /\ CarriesResponse(postAnswer)) =>
         /\ pc = "done" /\ trace = <<>>
         /\ IF postAnswer.result = "valid" THEN outcome = Resolved ELSE ValidationFailed
    /\ (postAnswer.status = 202 /\ CarriesJob(postAnswer)) => trace # <<>>
    /\ ~Ok(postAnswer) =>
         pc = "done" /\ outcome.kind = "error" /\ trace = <<>>

C3_Witness ==
  /\ client = "api" /\ postAnswer.status = 201 /\ pc = "done" /\ outcome = Resolved

\* the answer r of the job endpoint reports the job as failed, with a message
ReportsFailure(r) ==
  /\ r.json /\ r.msg # "none"
  /\ IF client = "api" THEN r.status = 500 ELSE Ok(r) /\ r.job = "failed"

\* C4: once a poll has reported the job as failed the query has rejected
\* with the job-failed error carrying the reported message (and, being
\* settled, makes no further request).
C4_JobFailure ==
  (Len(answers) > 0 /\ ReportsFailure(Last(answers))) =>
    /\ pc = "done" /\ outcome.kind = "error" /\ outcome.err = "failed"
    /\ outcome.msg = Last(answers).msg

\* C5: once a poll has been answered with 404 the query has rejected with
\* the job-not-found error (and, being settled, makes no further request).
C5_UnknownJob ==
  (Len(answers) > 0 /\ Last(answers) = NotFound) =>
    /\ pc = "done" /\ outcome.kind = "error"
    /\ outcome.err \in {"notfound", "api"}

\* C10: at most one request to the job endpoint is in flight, and a poll is
\* started only when none is in flight and, unless it is the first poll,
\* only by the end of the interval sleep.
C10_SequentialPolls ==
  [][/\ inflight <= 1 /\ inflight' <= 1
     /\ NumPolls(trace') > NumPolls(trace) =>
          /\ NumPolls(trace') = NumPolls(trace) + 1
          /\ NumPolls(trace) = 0 \/ pc = "sleeping"]_vars

\* the answer r of the job endpoint reports the job as still in progress
InProgress(r) ==
  /\ r.json
  /\ IF client = "api" THEN r.status = 202
     ELSE Ok(r) /\ r.job \in {"queued", "processing"}

RECURSIVE PercentagesReported(_, _)
\* the percentages reported by the in-progress answers among a, in order
PercentagesReported(a, pr) ==
  IF a = <<>> THEN <<>>
  ELSE LET rest == PercentagesReported(Tail(a), Tail(pr))
       IN IF InProgress(Head(a)) /\ Head(pr) # Undef
          THEN <<ProgressCall(Head(pr), "none")>> \o rest
          ELSE rest

\* C11: with a progress callback registered, the callback has been called
\* exactly once, with the reported percentage, for every answer received
\* that reports the job in progress, and never for an answer that reports a
\* terminal state; after 'processing' with progress 50 and 'completed'
\* there have been exactly 2 polls and one call, with 50.
C11_ProgressReporting ==
  onProgress =>
    /\ progressCalls = PercentagesReported(answers, progress)
    /\ (ThenCompleted(answers) /\ ProcessingPrefix(answers) = 1 /\ progress[1] = 50) =>
         NumPolls(trace) = 2 /\ progressCalls = <<ProgressCall(50, "none")>>

\* C12: once the consumer has signalled cancellation no further poll of the
\* job status is started.
C12_Cancellation ==
  [][cancelled => NumPolls(trace') = NumPolls(trace)]_vars

\* the answer r to a request made at position p ("post_wait", "poll_wait",
\* "result_wait") fails the validation the client applies to it
FailsValidation(r, p) ==
  /\ r.status # 0 /\ r.json
  /\ IF client = "api"
     THEN /\ r.result # "valid"
          /\ IF p = "post_wait" THEN Ok(r) /\ r.status # 202 ELSE r.status = 200
     ELSE /\ Ok(r)
          /\ ~SchemaAccepts(CASE p = "post_wait" -> "endpoint"
                              [] p = "poll_wait" -> "job"
                              [] OTHER -> "result", r)

\* C20: when an answer fails validation, to the POST or to a request to the
\* job endpoint, the query rejects with the validation error in that same
\* step and sends no further request.
C20_ValidationNotRetried ==
  [][/\ (postAnswer' # postAnswer /\ FailsValidation(postAnswer', pc)) =>
          pc' = "done" /\ ValidationFailed' /\ trace' = trace
     /\ (Len(answers') > Len(answers) /\ FailsValidation(Last(answers'), pc)) =>
          pc' = "done" /\ ValidationFailed' /\ trace' = trace]_vars

\* the answer r of the job endpoint reports the job as failed, with or
\* without a message
ReportsFailedJob(r) ==
  r.json /\ IF client = "api" THEN r.status = 500 ELSE Ok(r) /\ r.job = "failed"

\* some poll of the query was answered with a report that the job failed
FailureReported == \E i \in 1..Len(answers) : ReportsFailedJob(answers[i])

\* C21: a polling timeout and a job failure reported by the backend reach
\* the caller as different errors: a query during which a poll reported the
\* job as failed never rejects with the timeout error, and a query that
\* rejects with the job-failed error was told of a failure.
C21_DistinctOutcomes ==
  (pc = "done" /\ outcome.kind = "error") =>
    /\ FailureReported => outcome.err # "timeout"
    /\ outcome.err = "failed" => FailureReported

\* C27: an invocation of pollJob receives at most maxAttempts job-status
\* responses, whatever their HTTP statuses: by then it has returned a result
\* or raised, or it raises when the interval sleep it is in ends.
C27_PollLoopTermination ==
  client = "api" =>
    /\ Len(answers) <= maxAttempts
    /\ (Len(answers) = maxAttempts /\ pc # "done") => pc = "sleeping"

(***************************************************************************)
(* Properties of the HTTP wrapper.                                         *)
(***************************************************************************)
\* the maxRetries the caller configured: per call, else at construction,
\* else the default
ConfiguredRetries ==
  IF callRetries # Undef THEN callRetries
  ELSE IF ctorRetries # Undef THEN ctorRetries
  ELSE DefaultRetries

\* C6: after an answer with a status in [400,500) the wrapper has raised an
\* error carrying that status, and has made one HTTP attempt for that answer
\* and none after it.
C6_NoRetryOn4xx ==
  (Len(flog) > 0 /\ Last(flog).status >= 400 /\ Last(flog).status < 500) =>
    /\ fpc = "done" /\ fout.kind = "error"
    /\ fout.status = Last(flog).status
    /\ fcalls = Len(flog)

\* C7: with at least two retries allowed, the answers 503, 503, 200 make
\* the wrapper return successfully after three attempts, having slept at
\* least retryDelay * k before retry k; after one or two 503 answers it
\* gives up only if the timeout fired.
C7_RetryOn5xx ==
  (fpc # "idle" /\ retries >= 2) =>
    /\ flog = <<S503, S503, Ok200>> =>
         /\ fpc = "done" /\ fout.kind = "ok" /\ fcalls = 3
         /\ Len(sleeps) = 2
         /\ \A k \in 1..2 : sleeps[k] >= retryDelay * k
    /\ (flog \in {<<S503>>, <<S503, S503>>} /\ fpc = "done") => fout = AbortError

C7_Witness ==
  /\ flog = <<S503, S503, Ok200>> /\ fout.kind = "ok" /\ retries = 2

\* C8: the wrapper makes at most maxRetries + 1 HTTP attempts, for the
\* maxRetries configured per call or at construction.
C8_BoundedRetries ==
  fcalls <= ConfiguredRetries + 1

\* C9: when the timeout fires while an HTTP attempt is pending the wrapper
\* raises the abort error in that same step, whatever retries remain, and a
\* settled call makes no HTTP attempt.
C9_TimeoutTerminal ==
  [][/\ (fpc = "wait" /\ ~aborted /\ aborted') =>
          fpc' = "done" /\ fout' = AbortError /\ fcalls' = fcalls
     /\ fpc = "done" => fcalls' = fcalls /\ fout' = fout]_vars

C9_Witness ==
  /\ fpc = "done" /\ fout = AbortError /\ attempt < retries
  /\ fcalls = attempt + 1 /\ flog # <<>>

\* the answers the health endpoint gave to the running healthCheck
HealthAnswers == IF hclient = "typed" THEN hlog ELSE flog

\* C22: healthCheck never raises: it settles with a boolean as soon as its
\* request has settled; the boolean is true only when the last answer of the
\* health endpoint was a 2xx, and it is false when the last answer was not a
\* 2xx, when the request failed in transport, and when the timeout fired.
C22_HealthCheckNeverRaises ==
  hclient # "none" =>
    /\ health # "raised"
    /\ hpc = "done" <=> health \in {"true", "false"}
    /\ (hclient = "wrapper" /\ fpc = "done") => hpc = "done"
    /\ health = "true" => HealthAnswers # <<>> /\ Ok(Last(HealthAnswers))
    /\ (hpc = "done" /\ (aborted \/ HealthAnswers = <<>> \/ ~Ok(Last(HealthAnswers))))
         => health = "false"

C22_Witness ==
  /\ hclient = "wrapper" /\ hpc = "done" /\ health = "false" /\ aborted
  /\ flog = <<S503>>

\* C28: an HTTP attempt of the wrapper is aborted by the timeout only when
\* timeoutMs has passed since that attempt's own start, for the first
\* attempt and for every retry made after a backoff sleep.
C28_PerAttemptTimeout ==
  [][(fout # AbortError /\ fout' = AbortError) =>
       fclock' - attemptStart' >= timeoutMs]_vars

(***************************************************************************)
(* Properties of the validators.                                           *)
(***************************************************************************)
\* a validator has been applied to a QueryResponse payload
QueryValidated == vkind = "query" /\ validator # "none"
\* a validator has been applied to a usage-statistics payload
UsageValidated == vkind = "usage" /\ validator # "none"

\* v is a number in [lo, hi] (hundredths)
NumIn(v, lo, hi) == v.type = "number" /\ ~v.nan /\ v.num >= lo /\ v.num <= hi
\* v is a number outside [lo, hi]
NumOutside(v, lo, hi) == v.type = "number" /\ (v.nan \/ v.num < lo \/ v.num > hi)

\* the result of the validator named v for the payload d
Validated(v, d) ==
  IF v = "validateQueryResponse" THEN validateQueryResponse(d) ELSE QueryResponseSchema(d)

\* C13: a validated QueryResponse has its confidence and the confidence of
\* every model_metrics element in [0,1]; a payload whose confidence is out
\* of range is rejected with an error naming confidence, and a payload
\* with an out-of-range model_metrics confidence with an error naming the
\* first such element.
C13_RangeInvariant ==
  QueryValidated =>
    LET mm == input.model_metrics.items
        Bad(m) == NumOutside(m.confidence, 0, 100)
    IN /\ vout.ok =>
            /\ NumIn(vout.value.confidence, 0, 100)
            /\ \A i \in 1..Len(vout.value.model_metrics.items) :
                 NumIn(vout.value.model_metrics.items[i].confidence, 0, 100)
       /\ (input.request_id # "undefined" /\ NumOutside(input.confidence, 0, 100)) =>
            ~vout.ok /\ vout.field = "confidence"
       /\ (/\ input.request_id # "undefined" /\ NumIn(input.confidence, 0, 100)
           /\ \A i \in 1..Len(mm) : mm[i].confidence.type = "number"
           /\ FirstBad([i \in 1..Len(mm) |-> Bad(mm[i])]) # 0) =>
            /\ ~vout.ok /\ vout.field = "model_metrics.confidence"
            /\ vout.index = FirstBad([i \in 1..Len(mm) |-> Bad(mm[i])]) - 1

\* the string s is, all of it, a number
WhollyNumeric(s) == FloatPrefix(s).digits > 0 /\ FloatPrefix(s).len = Len(s)

\* the numeric field v with a wholly numeric string replaced by its number
AsNumber(v) ==
  IF v.type = "string" /\ WhollyNumeric(v.str) THEN JNum(FloatPrefix(v.str).num) ELSE v

\* the payload d with its numeric strings replaced by the equivalent numbers
Numbered(d) ==
  [d EXCEPT !.confidence = AsNumber(@),
            !.model_metrics.items =
              [i \in 1..Len(@) |-> [@[i] EXCEPT !.confidence = AsNumber(@)]]]

\* some numeric field of the payload d holds a string that is not a number
HasNonNumericString(d) ==
  \/ d.confidence.type = "string" /\ ~WhollyNumeric(d.confidence.str)
  \/ \E i \in 1..Len(d.model_metrics.items) :
       LET c == d.model_metrics.items[i].confidence
       IN c.type = "string" /\ ~WhollyNumeric(c.str)

\* C14: a payload validates to the same result as the payload with its
\* numeric strings replaced by the equivalent numbers, and a payload with a
\* string that is not wholly a number in a numeric field fails validation.
C14_Coercion ==
  QueryValidated =>
    IF HasNonNumericString(input) THEN ~vout.ok
    ELSE vout = Validated(validator, Numbered(input))

\* exactly one element of model_metrics is the winner, and it is the
\* winner_model
ExactlyOneWinner(d) ==
  LET mm == d.model_metrics.items
  IN /\ d.model_metrics.array
     /\ Cardinality({i \in 1..Len(mm) : mm[i].is_winner}) = 1
     /\ \A i \in 1..Len(mm) : mm[i].is_winner => mm[i].model = d.winner_model

\* the payload is a QueryResponse of the data model
WellFormed(d) ==
  /\ d.request_id # "undefined" /\ NumIn(d.confidence, 0, 100)
  /\ d.model_metrics.array
  /\ \A i \in 1..Len(d.model_metrics.items) :
       NumIn(d.model_metrics.items[i].confidence, 0, 100)
  /\ ExactlyOneWinner(d)

\* C15: validating a well-formed QueryResponse returns an object equal to
\* it.
C15_RoundTrip ==
  (QueryValidated /\ WellFormed(input)) => vout.ok /\ vout.value = input

\* the first offending field of a usage-statistics payload, and for an
\* element of top_models its index; "none" when the payload is acceptable
FirstOffending(d) ==
  LET BadPercentage(m) == ~NumIn(m.usage_percentage, 0, 10000)
      BadModel(m) == BadPercentage(m) \/ ~NumIn(m.avg_score, 0, 100)
      bad == FirstBad([i \in 1..Len(d.top_models.items) |-> BadModel(d.top_models.items[i])])
  IN IF ~NumIn(d.total_requests, 0, d.total_requests.num)
       THEN [field |-> "total_requests", index |-> 0]
     ELSE IF ~NumIn(d.avg_confidence, 0, 100) THEN [field |-> "avg_confidence", index |-> 0]
     ELSE IF ~d.top_models.array THEN [field |-> "top_models", index |-> 0]
     ELSE IF bad = 0 THEN [field |-> "none", index |-> 0]
     ELSE [field |-> IF BadPercentage(d.top_models.items[bad])
                     THEN "top_models.usage_percentage" ELSE "top_models.avg_score",
           index |-> bad - 1]

\* no numeric field of the usage-statistics payload holds a string
NoStrings(d) ==
  /\ d.total_requests.type # "string" /\ d.avg_confidence.type # "string"
  /\ \A i \in 1..Len(d.top_models.items) :
       /\ d.top_models.items[i].usage_percentage.type # "string"
       /\ d.top_models.items[i].avg_score.type # "string"

\* C16: a usage-statistics payload is accepted only if it has no offending
\* field, and is otherwise rejected with an error naming the first
\* offending field or element.
C16_UsageStatsValidation ==
  (UsageValidated /\ NoStrings(input)) =>
    /\ vout.ok <=> FirstOffending(input).field = "none"
    /\ ~vout.ok =>
         /\ vout.field = FirstOffending(input).field
         /\ vout.index = FirstOffending(input).index

\* C17: an accepted QueryResponse has exactly one model_metrics element
\* with is_winner, and that element's model is the winner_model.
C17_WinnerInvariant ==
  (QueryValidated /\ vout.ok) => ExactlyOneWinner(input)

(***************************************************************************)
(* Properties of the usage statistics.                                     *)
(***************************************************************************)
\* the fetch answered with r failed: transport error, status outside 2xx,
\* or a body that is not JSON
FetchFailed(r) == r.status = 0 \/ ~Ok(r) \/ ~r.json

\* the statistics the code makes up when a fetch fails
Fabricated == {FallbackStats, DefaultData, DashboardFallback}

\* C18: when the fetch of the usage statistics fails (transport error,
\* status outside 2xx, or for getUsageStats a validation failure),
\* getUsageStats throws and the useUsageStats hook sets its error and stores
\* no made-up statistics, and the proxy route answers with an error status
\* and not with default statistics.
C18_NoFabricatedData ==
  [][Len(slog') > Len(slog) =>
       LET e == Last(slog') IN
       /\ (/\ holder = "useApiStats"
           /\ (FetchFailed(e.backend) \/ ~validateUsageStats(e.backend.body).ok)) =>
            /\ ~GetUsageStats(e.backend).ok
            /\ statsError' # "none"
            /\ stats' \notin Fabricated
       /\ (holder = "useStats" /\ e.response # e.backend /\ FetchFailed(e.backend)) =>
            /\ ~Ok(e.response)
            /\ e.response.body \notin Fabricated]_vars

\* C19: in the hook of use-stats.ts and in the two pages, a fetch that
\* succeeds replaces the stored statistics by the payload received, and a
\* fetch that fails leaves the stored statistics as they were and sets the
\* error.
C19_StaleOnFailure ==
  [][(Len(slog') > Len(slog) /\ holder # "useApiStats") =>
       LET a == Last(slog').response IN
       IF FetchFailed(a) THEN stats' = stats /\ statsError' # "none"
       ELSE stats' = a.body]_vars

\* the automatic retries of the page: scheduled, in flight and settled
PageRetries ==
  retryTimers + Cardinality({f \in pendingStats : f.retryCount = 1})
  + Cardinality({i \in 1..Len(slog) : slog[i].fetch.retryCount = 1})

\* the fetches of the page that were no retry and failed
FailedFirstTries ==
  Cardinality({i \in 1..Len(slog) :
                 slog[i].fetch.retryCount = 0 /\ FetchFailed(slog[i].response)})

\* C26: in the page's usage-stats fetch there is at most one automatic
\* retry per failed fetch; when a retry settles no further retry is
\* scheduled, and when it failed the stats error is set.
C26_AutoRetryOnce ==
  /\ [](holder = "page" => PageRetries <= FailedFirstTries)
  /\ [][(/\ holder = "page" /\ Len(slog') > Len(slog)
         /\ Last(slog').fetch.retryCount = 1) =>
          /\ retryTimers' = retryTimers
          /\ FetchFailed(Last(slog').response) => statsError' # "none"]_vars

C26_Witness ==
  /\ holder = "page" /\ Len(slog) = 2 /\ retryTimers = 0 /\ pendingStats = {}
  /\ slog[1].fetch.retryCount = 0 /\ slog[1].response.status = 500
  /\ slog[2].fetch.retryCount = 1 /\ slog[2].response.status = 500
  /\ statsError = "http"

\* some fetch the consumer started, or an automatic retry it scheduled, has
\* not settled yet
FetchOutstanding == pendingStats # {} \/ retryTimers > 0

\* C29: in the data hooks of use-stats.ts and use-models.ts and in the
\* page's stats fetch, loading is true whenever a fetch started by the
\* consumer (initial load, interval refresh, manual refetch or scheduled
\* automatic retry) is outstanding, and loading becomes false only when
\* none is.
C29_LoadingFlag ==
  /\ []((holder \in {"useStats", "page"} /\ FetchOutstanding) => statsLoading)
  /\ [][(holder \in {"useStats", "page"} /\ statsLoading /\ ~statsLoading') =>
          ~FetchOutstanding']_vars

\* the settled fetch that was started last
LastStarted ==
  CHOOSE i \in 1..Len(slog) : \A j \in 1..Len(slog) : slog[j].fetch.id <= slog[i].fetch.id

\* C30: when the fetches of a data hook have all completed, and each with a
\* payload, the data held is the payload of the fetch that was started
\* last, whatever the order in which they completed.
C30_LatestFetchWins ==
  (/\ holder = "useStats" /\ pendingStats = {} /\ Len(slog) > 0
   /\ \A i \in 1..Len(slog) : ~FetchFailed(slog[i].response)) =>
     stats = slog[LastStarted].response.body

(***************************************************************************)
(* Properties of the request headers.                                      *)
(***************************************************************************)
\* the API key the client in use is configured with, "" when it has none
ConfiguredKey ==
  CASE aclient = "typed" -> TypedApiKey(ctorKey, envKey)
    [] aclient = "api" -> ApiKey(envKey)
    [] OTHER -> envKey

C24_SingleSlotCallback ==
  \A i \in 1..Len(delivered) :
    /\ delivered[i].after > 0
    /\ delivered[i].to = registered[delivered[i].after]

C24_Witness ==
  /\ registered = <<"f", "g">> /\ pollers[1] = "f" /\ pollers[2] = "g"
  /\ Len(delivered) = 2
  /\ delivered[1] = Delivery("g", 1, 50, 2)
  /\ delivered[2] = Delivery("g", 2, 50, 2)

(***************************************************************************)
(* Properties of the formatters.                                           *)
(***************************************************************************)
\* the string s has a character that no decimal literal has
HasNonNumericCharacter(s) ==
  \E i \in 1..Len(s) : ~IsDigit(s[i]) /\ s[i] \notin {".", "-", "+"}

\* the value is not a finite number: null, undefined, NaN, an infinity, or
\* a string that is not numeric
NotAFiniteNumber(v) ==
  \/ v.type \in {"null", "undefined"}
  \/ v.type = "number" /\ v.kind # "finite"
  \/ v.type = "string" /\ HasNonNumericCharacter(v.str)

====
